---- MODULE Spec2Model ----
(***************************************************************************)
(* podfather: the application grouping and categorisation engine.          *)
(*                                                                         *)
(* Go strings are modelled as sequences of byte values, so that the        *)
(* comparisons the code makes with < on strings are the byte-wise          *)
(* lexicographic comparisons of Go.  Label keys are only ever compared     *)
(* for equality and are modelled as TLA+ strings.                          *)
(***************************************************************************)
EXTENDS FiniteSets, Integers, Sequences, TLC

VARIABLES
    externalApps,   \* Server.externalApps, set once by main()
    containers,     \* the container list handed to buildAppCategories
    history,        \* the results of the buildAppCategories calls so far
    environ,        \* os.Environ(), the entries of the process environment
    envApps,         \* the results of the parseExternalApps calls so far
    states,         \* the results of the appState calls so far
    panicked,       \* a call has ended in a run-time panic
    calls,          \* the buildAppCategories calls under way, with their locals
    server,         \* Server.basePath and Server.enableAutoUpdate
    served          \* the latest HTTP request with what the server did for it

vars ==
    <<externalApps, containers, history, environ, envApps, states, panicked,
      calls, server, served>>

----------------------------------------------------------------------------
(* Bounds of the model. *)

MaxContainers == 2
MaxExternal == 2
MaxCalls == 2
MaxStateLen == 3
MaxEnv == 3

----------------------------------------------------------------------------
(* Strings. *)

EmptyStr == <<>>

\* "Uncategorized"
Uncategorized == <<85, 110, 99, 97, 116, 101, 103, 111, 114, 105, 122, 101, 100>>

\* "running", "exited"
sRunning == <<114, 117, 110, 110, 105, 110, 103>>
sExited == <<101, 120, 105, 116, 101, 100>>

\* "created", "unknown", "Running"
sCreated == <<99, 114, 101, 97, 116, 101, 100>>
sUnknown == <<117, 110, 107, 110, 111, 119, 110>>
sRunningCapital == <<82, 117, 110, 110, 105, 110, 103>>

\* "B", "C", "b": app names; in byte order B < C < b
sB == <<66>>
sC == <<67>>
sb == <<98>>

\* "M", "Z": category names; in byte order M < Uncategorized < Z
sM == <<77>>
sZ == <<90>>

\* "1"
s1 == <<49>>

\* a two-byte string: a letter and the digit of n
Tag(letter, n) == <<letter, 48 + n>>

\* Go's a < b on strings: byte-wise lexicographic, a proper prefix is smaller
StrLess(a, b) ==
    \E i \in 1..Len(b) :
        /\ i <= Len(a) + 1
        /\ \A j \in 1..(i - 1) : a[j] = b[j]
        /\ (i = Len(a) + 1 \/ a[i] < b[i])

\* strconv.Atoi: an optional sign and one or more decimal digits, of a
\* value in the range of int (64 bits); anything else is an error.
RECURSIVE digitsValue(_)
digitsValue(d) ==
    IF Len(d) = 0 THEN 0
    ELSE 10 * digitsValue(SubSeq(d, 1, Len(d) - 1)) + (d[Len(d)] - 48)

\* the digits without their leading zeros
RECURSIVE stripZeros(_)
stripZeros(d) ==
    IF Len(d) > 0 /\ d[1] = 48 THEN stripZeros(Tail(d)) ELSE d

\* "9223372036854775807" and "9223372036854775808": the largest int and
\* the magnitude of the smallest
maxIntDigits ==
    <<57, 50, 50, 51, 51, 55, 50, 48, 51, 54, 56, 53, 52, 55, 55, 53, 56, 48, 55>>
minIntDigits ==
    <<57, 50, 50, 51, 51, 55, 50, 48, 51, 54, 56, 53, 52, 55, 55, 53, 56, 48, 56>>

\* the digits, of a negative number or not, stand for a value outside int
outOfRange(neg, digits) ==
    LET d == stripZeros(digits)
        limit == IF neg THEN minIntDigits ELSE maxIntDigits
    IN  Len(d) > Len(limit) \/ (Len(d) = Len(limit) /\ StrLess(limit, d))

\* (the value returned along with an error is never read by the code)
Atoi(s) ==
    LET signed == Len(s) > 0 /\ s[1] \in {43, 45}
        neg == signed /\ s[1] = 45
        digits == IF signed THEN Tail(s) ELSE s
    IN  IF Len(digits) = 0 \/ \E i \in 1..Len(digits) : digits[i] \notin 48..57
        THEN [err |-> TRUE, v |-> 0]
        ELSE IF outOfRange(neg, digits) THEN [err |-> TRUE, v |-> 0]
        ELSE [err |-> FALSE,
              v |-> IF neg THEN 0 - digitsValue(digits)
                    ELSE digitsValue(digits)]

----------------------------------------------------------------------------
(* Maps.  A Go map is a function on the set of its keys; reading a key     *)
(* that is absent (or reading a nil map) gives the zero value.             *)

MapPut(m, k, v) == [x \in (DOMAIN m) \cup {k} |-> IF x = k THEN v ELSE m[x]]

\* c.Labels[appLabelPrefix+key]
Label(c, key) == IF key \in DOMAIN c.Labels THEN c.Labels[key] ELSE EmptyStr

\* the orders in which a range loop may visit the keys of a map
RECURSIVE Orders(_)
Orders(S) ==
    IF S = {} THEN {<<>>}
    ELSE UNION {{<<x>> \o o : o \in Orders(S \ {x})} : x \in S}

----------------------------------------------------------------------------
(* sort.Slice orders a slice in place: the outcome is some rearrangement   *)
(* of the slice in which no element is less than an element before it.     *)
(* The sort is not stable: elements that the less function does not order  *)
(* may come out in any order.                                              *)

\* the rearrangements of a slice
Rearrangements(s) == {[i \in 1..Len(s) |-> s[f[i]]] : f \in Orders(1..Len(s))}

----------------------------------------------------------------------------
(* buildAppCategories, step by step. *)

\* the App created for the first container that declares name (the
\* composite literal sets no Subtitle)
newApp(c, name) ==
    LET s == Label(c, "sort-index")
        parsed == Atoi(s)
        sortIdx == IF s # EmptyStr /\ ~parsed.err THEN parsed.v ELSE 0
    IN  [Name |-> name,
         Icon |-> Label(c, "icon"),
         Category |-> Label(c, "category"),
         SortIndex |-> sortIdx,
         Subtitle |-> EmptyStr,
         Description |-> Label(c, "description"),
         URL |-> Label(c, "url"),
         Containers |-> <<>>]

\* groupStep with the container put in front of Containers
groupStepPrepend(appMap, c) ==
    LET name == Label(c, "name")
    IN  IF name = EmptyStr THEN appMap
        ELSE LET m == IF name \in DOMAIN appMap THEN appMap
                      ELSE MapPut(appMap, name, newApp(c, name))
             IN  [m EXCEPT ![name].Containers = <<c>> \o @]

\* groupStep without the exists test: every container sets the metadata
groupStepLastWins(appMap, c) ==
    LET name == Label(c, "name")
    IN  IF name = EmptyStr THEN appMap
        ELSE LET old == IF name \in DOMAIN appMap THEN appMap[name].Containers
                        ELSE <<>>
             IN  MapPut(appMap, name,
                        [newApp(c, name) EXCEPT !.Containers = Append(old, c)])

\* groupStep without the test for an empty name
\* groupStep that keeps only the first container of an app
groupStepFirstOnly(appMap, c) ==
    LET name == Label(c, "name")
    IN  IF name = EmptyStr \/ name \in DOMAIN appMap THEN appMap
        ELSE MapPut(appMap, name,
                    [newApp(c, name) EXCEPT !.Containers = <<c>>])

groupStepNoSkip(appMap, c) ==
    LET name == Label(c, "name")
        m == IF name \in DOMAIN appMap THEN appMap
             ELSE MapPut(appMap, name, newApp(c, name))
    IN  [m EXCEPT ![name].Containers = Append(@, c)]

\* one turn of the loop over the containers
groupStep(appMap, c) ==
    LET name == Label(c, "name")
    IN  IF name = EmptyStr THEN appMap
        ELSE LET m == IF name \in DOMAIN appMap THEN appMap
                      ELSE MapPut(appMap, name, newApp(c, name))
             IN  [m EXCEPT ![name].Containers = Append(@, c)]

RECURSIVE groupLoop(_, _, _)
groupLoop(cs, i, appMap) ==
    IF i > Len(cs) THEN appMap
    ELSE groupLoop(cs, i + 1, groupStep(appMap, cs[i]))

\* mergeStep without the exists test: the external app replaces the app
mergeStepExternalWins(appMap, a) == MapPut(appMap, a.Name, a)

\* mergeStep with appMap keyed by the URL of the external app
mergeStepKeyedByURL(appMap, a) ==
    IF a.URL \in DOMAIN appMap THEN appMap ELSE MapPut(appMap, a.URL, a)

\* mergeStep that keeps an app only if it has containers
mergeStepLaterExternalWins(appMap, a) ==
    IF a.Name \in DOMAIN appMap /\ Len(appMap[a.Name].Containers) > 0 THEN appMap
    ELSE MapPut(appMap, a.Name, a)

\* one turn of the loop over s.externalApps
mergeStep(appMap, a) ==
    IF a.Name \in DOMAIN appMap THEN appMap ELSE MapPut(appMap, a.Name, a)

\* s.externalApps after a call that merges through pointers into the list
\* and then names the category of the uncategorized apps in place
externalAppsAfterInPlace(ext) ==
    [i \in 1..Len(ext) |->
        IF ext[i].Category = EmptyStr
        THEN [ext[i] EXCEPT !.Category = Uncategorized]
        ELSE ext[i]]

\* s.externalApps after the call: the loop reads s.externalApps[i] into the
\* local a and hands &a to appMap, so nothing reachable from appMap, catMap
\* or the result is an element of the list, and no statement assigns to it
externalAppsAfter(ext) == ext

\* the caller's containers after the call: range copies each element into
\* c, append copies c into the Containers of the app, the Labels maps are
\* only read, and the slices that sort.Slice rearranges are the function's
\* own
containersAfter(cs) == cs

RECURSIVE mergeLoop(_, _, _)
mergeLoop(ext, i, appMap) ==
    IF i > Len(ext) THEN appMap
    ELSE mergeLoop(ext, i + 1, mergeStep(appMap, ext[i]))

\* bucketName without the default for an empty Category
bucketNameRaw(app) == app.Category

\* bucketName that files the app under its Name
bucketNameByName(app) == app.Name

\* the key of catMap an app is appended under
bucketName(app) == IF app.Category = EmptyStr THEN Uncategorized ELSE app.Category

\* the loop over appMap, visiting its keys in the given order
RECURSIVE bucketLoop(_, _, _, _)
bucketLoop(appMap, order, i, catMap) ==
    IF i > Len(order) THEN catMap
    ELSE LET app == appMap[order[i]]
             cat == bucketName(app)
             old == IF cat \in DOMAIN catMap THEN catMap[cat] ELSE <<>>
         IN  bucketLoop(appMap, order, i + 1, MapPut(catMap, cat, Append(old, app)))

\* appLess that looks at the names only
appLessByName(a, b) == StrLess(a.Name, b.Name)

\* the less function of the sort inside a category
appLess(a, b) ==
    IF a.SortIndex # b.SortIndex THEN a.SortIndex < b.SortIndex
    ELSE StrLess(a.Name, b.Name)

\* categoryLess without the special case of "Uncategorized"
categoryLessAlphabetical(a, b) == StrLess(a.Name, b.Name)

\* the less function of the sort of the categories
categoryLess(a, b) ==
    IF a.Name = Uncategorized THEN FALSE
    ELSE IF b.Name = Uncategorized THEN TRUE
    ELSE StrLess(a.Name, b.Name)

\* sort.Slice(apps, ...) inside a category
sortApps(apps) ==
    {p \in Rearrangements(apps) :
        \A i, j \in 1..Len(p) : i < j => ~appLess(p[j], p[i])}

\* the categories left in the order the loop over catMap produced
sortCategoriesSkipped(categories) == {categories}

\* sort.Slice(categories, ...)
sortCategories(categories) ==
    {p \in Rearrangements(categories) :
        \A i, j \in 1..Len(p) : i < j => ~categoryLess(p[j], p[i])}

\* the loop that sorts every bucket of catMap
RECURSIVE sortBucketsOf(_, _)
sortBucketsOf(catMap, cats) ==
    IF cats = {} THEN {catMap}
    ELSE LET cat == CHOOSE c \in cats : TRUE
         IN  UNION {sortBucketsOf([catMap EXCEPT ![cat] = apps], cats \ {cat}) :
                    apps \in sortApps(catMap[cat])}

sortBuckets(catMap) == sortBucketsOf(catMap, DOMAIN catMap)

\* the loop over catMap that builds the categories slice, then its sort
assemble(catMap) ==
    UNION {sortCategories([i \in 1..Len(order) |->
                              [Name |-> order[i], Apps |-> catMap[order[i]]]]) :
           order \in Orders(DOMAIN catMap)}

\* every result the call can return, over all map iteration orders and all
\* outcomes of the sorts
buildAppCategories(cs, ext) ==
    LET appMap == mergeLoop(ext, 1, groupLoop(cs, 1, <<>>))
    IN  UNION {UNION {assemble(sortedMap) :
                      sortedMap \in sortBuckets(bucketLoop(appMap, order, 1, <<>>))} :
               order \in Orders(DOMAIN appMap)}

----------------------------------------------------------------------------
(* appState. *)

\* a Go index expression s[i], i counted from 0, is in range
IndexInRange(s, i) == 0 <= i /\ i < Len(s)

\* appState that looks at the first container only
appStateFirstOnly(cs) ==
    IF Len(cs) > 0 THEN cs[1].State ELSE sUnknown

\* appState that falls back to the last container
appStateLastWins(cs) ==
    IF \E i \in 1..Len(cs) : cs[i].State = sRunning THEN sRunning
    ELSE IF Len(cs) > 0 THEN cs[Len(cs)].State
    ELSE sUnknown

\* appState(containers)
appState(cs) ==
    IF \E i \in 1..Len(cs) : cs[i].State = sRunning THEN sRunning
    ELSE IF Len(cs) > 0 THEN cs[1].State
    ELSE sUnknown

\* appState reads containers[0] without the test of the length
appStatePanicsUnguarded(cs) ==
    /\ ~\E i \in 1..Len(cs) : cs[i].State = sRunning
    /\ ~IndexInRange(cs, 0)

\* appState panics: it reaches containers[0] and the index is out of range
appStatePanics(cs) ==
    /\ ~\E i \in 1..Len(cs) : cs[i].State = sRunning
    /\ Len(cs) > 0
    /\ ~IndexInRange(cs, 0)

----------------------------------------------------------------------------
(* parseExternalApps. *)

\* strings.IndexByte(s, c): the 0-based index of the first c in s, or -1
IndexByte(s, c) ==
    IF \E i \in 1..Len(s) : s[i] = c
    THEN (CHOOSE i \in 1..Len(s) :
              s[i] = c /\ \A j \in 1..(i - 1) : s[j] # c) - 1
    ELSE 0 - 1

\* strings.HasPrefix(s, p)
HasPrefix(s, p) == Len(s) >= Len(p) /\ SubSeq(s, 1, Len(p)) = p

\* strings.HasSuffix(s, x)
HasSuffix(s, x) ==
    Len(s) >= Len(x) /\ SubSeq(s, Len(s) - Len(x) + 1, Len(s)) = x

\* a Go slice expression s[lo:hi] is in range
SliceInRange(s, lo, hi) == 0 <= lo /\ lo <= hi /\ hi <= Len(s)

\* the Go slice expression s[lo:hi]
Slice(s, lo, hi) == SubSeq(s, lo + 1, hi)

\* const prefix = "PODFATHER_APP_"
prefix == <<80, 79, 68, 70, 65, 84, 72, 69, 82, 95, 65, 80, 80, 95>>

\* the suffixes with "_INDEX" in the place of "_ICON"
suffixesAmbiguous ==
    << [suffix |-> <<95, 68, 69, 83, 67, 82, 73, 80, 84, 73, 79, 78>>,
        field |-> "description"],
       [suffix |-> <<95, 83, 79, 82, 84, 95, 73, 78, 68, 69, 88>>,
        field |-> "sort-index"],
       [suffix |-> <<95, 67, 65, 84, 69, 71, 79, 82, 89>>,
        field |-> "category"],
       [suffix |-> <<95, 78, 65, 77, 69>>, field |-> "name"],
       [suffix |-> <<95, 73, 78, 68, 69, 88>>, field |-> "icon"],
       [suffix |-> <<95, 85, 82, 76>>, field |-> "url"] >>
\* the suffixes, in the order the code tries them
suffixes ==
    << [suffix |-> <<95, 68, 69, 83, 67, 82, 73, 80, 84, 73, 79, 78>>,
        field |-> "description"],
       [suffix |-> <<95, 83, 79, 82, 84, 95, 73, 78, 68, 69, 88>>,
        field |-> "sort-index"],
       [suffix |-> <<95, 67, 65, 84, 69, 71, 79, 82, 89>>,
        field |-> "category"],
       [suffix |-> <<95, 78, 65, 77, 69>>, field |-> "name"],
       [suffix |-> <<95, 73, 67, 79, 78>>, field |-> "icon"],
       [suffix |-> <<95, 85, 82, 76>>, field |-> "url"] >>

\* the first suffix of the list that rest ends with, 0 when there is none
firstSuffix(rest) ==
    IF \E k \in 1..Len(suffixes) : HasSuffix(rest, suffixes[k].suffix)
    THEN CHOOSE k \in 1..Len(suffixes) :
             /\ HasSuffix(rest, suffixes[k].suffix)
             /\ \A j \in 1..(k - 1) : ~HasSuffix(rest, suffixes[j].suffix)
    ELSE 0

\* f[name] of a map[string]string, "" for a missing key
Field(f, name) == IF name \in DOMAIN f THEN f[name] ELSE EmptyStr

\* fields[key][field] = value, the inner map made when it is nil
fieldPut(fields, key, field, value) ==
    MapPut(fields, key,
           MapPut(IF key \in DOMAIN fields THEN fields[key] ELSE <<>>,
                  field, value))

\* envStep without the test of the empty key
envStepEmptyKey(fields, env) ==
    LET eqIdx == IndexByte(env, 61)
        varName == Slice(env, 0, eqIdx)
        value == Slice(env, eqIdx + 1, Len(env))
        rest == Slice(varName, Len(prefix), Len(varName))
        k == firstSuffix(rest)
    IN  IF eqIdx < 0 \/ ~HasPrefix(varName, prefix) \/ k = 0 THEN fields
        ELSE fieldPut(fields,
                      Slice(rest, 0, Len(rest) - Len(suffixes[k].suffix)),
                      suffixes[k].field, value)

\* the body of the loop over os.Environ(): one entry of the environment
envStep(fields, env) ==
    LET eqIdx == IndexByte(env, 61)
    IN  IF eqIdx < 0 THEN fields
        ELSE
        LET varName == Slice(env, 0, eqIdx)
            value == Slice(env, eqIdx + 1, Len(env))
        IN  IF ~HasPrefix(varName, prefix) THEN fields
            ELSE
            LET rest == Slice(varName, Len(prefix), Len(varName))
                k == firstSuffix(rest)
            IN  IF k = 0 THEN fields
                ELSE
                LET key == Slice(rest, 0, Len(rest) - Len(suffixes[k].suffix))
                IN  IF key = EmptyStr THEN fields
                    ELSE fieldPut(fields, key, suffixes[k].field, value)

\* the body of the loop over os.Environ() panics: a slice expression it
\* reaches is out of range
envStepPanics(env) ==
    LET eqIdx == IndexByte(env, 61)
        varName == Slice(env, 0, eqIdx)
        rest == Slice(varName, Len(prefix), Len(varName))
        k == firstSuffix(rest)
    IN  /\ eqIdx >= 0
        /\ \/ ~SliceInRange(env, 0, eqIdx)
           \/ ~SliceInRange(env, eqIdx + 1, Len(env))
           \/ /\ HasPrefix(varName, prefix)
              /\ \/ ~SliceInRange(varName, Len(prefix), Len(varName))
                 \/ /\ k # 0
                    /\ ~SliceInRange(rest, 0,
                                     Len(rest) - Len(suffixes[k].suffix))

\* parseExternalApps() panics on the environment envs
parsePanics(envs) == \E i \in 1..Len(envs) : envStepPanics(envs[i])

\* the loop over os.Environ() from entry i on
RECURSIVE envLoop(_, _, _)
envLoop(envs, i, fields) ==
    IF i > Len(envs) THEN fields
    ELSE envLoop(envs, i + 1, envStep(fields, envs[i]))

\* the App that the composite literal builds from the fields f of one key
\* (it sets no Subtitle and no Containers)
externalApp(f) ==
    LET s == Field(f, "sort-index")
        parsed == Atoi(s)
        sortIdx == IF s # EmptyStr /\ ~parsed.err THEN parsed.v ELSE 0
    IN  [Name |-> Field(f, "name"),
         Icon |-> Field(f, "icon"),
         Category |-> Field(f, "category"),
         SortIndex |-> sortIdx,
         Subtitle |-> EmptyStr,
         Description |-> Field(f, "description"),
         URL |-> Field(f, "url"),
         Containers |-> <<>>]

\* appsStep that keeps the keys without a name
appsStepNoSkip(apps, f) == Append(apps, externalApp(f))

\* appsStep that drops the key whose sort index does not parse
appsStepDropUnparsed(apps, f) ==
    IF Field(f, "name") = EmptyStr THEN apps
    ELSE IF Field(f, "sort-index") # EmptyStr /\ Atoi(Field(f, "sort-index")).err
    THEN apps
    ELSE Append(apps, externalApp(f))

\* the body of the loop over fields: one key
appsStep(apps, f) ==
    IF Field(f, "name") = EmptyStr THEN apps
    ELSE Append(apps, externalApp(f))

\* the loop over fields, its keys visited in the order given
RECURSIVE appsLoop(_, _, _, _)
appsLoop(fields, order, i, apps) ==
    IF i > Len(order) THEN apps
    ELSE appsLoop(fields, order, i + 1, appsStep(apps, fields[order[i]]))

\* parseExternalApps(): every result that some iteration order of the map
\* fields gives for the environment envs
parseExternalApps(envs) ==
    LET fields == envLoop(envs, 1, <<>>)
    IN  {appsLoop(fields, order, 1, <<>>) : order \in Orders(DOMAIN fields)}

----------------------------------------------------------------------------
(* The Server. *)

\* the two fields of Server that the handlers read besides externalApps,
\* with their zero values
zeroServer == [basePath |-> EmptyStr, enableAutoUpdate |-> FALSE]

\* "BASE_PATH", "ENABLE_AUTOUPDATE_BUTTON", "true"
envBASEPATH == <<66, 65, 83, 69, 95, 80, 65, 84, 72>>
envENABLE ==
    <<69, 78, 65, 66, 76, 69, 95, 65, 85, 84, 79, 85, 80, 68, 65, 84, 69, 95,
      66, 85, 84, 84, 79, 78>>
sTrue == <<116, 114, 117, 101>>

\* os.Getenv(name): the value of the first entry "name=value" of the
\* environment, the empty string when there is none
Getenv(envs, name) ==
    LET hits == {i \in 1..Len(envs) : HasPrefix(envs[i], name \o <<61>>)}
    IN IF hits = {} THEN EmptyStr
       ELSE LET i == CHOOSE h \in hits : \A g \in hits : h <= g
            IN SubSeq(envs[i], Len(name) + 2, Len(envs[i]))

\* strings.TrimRight(s, "/")
RECURSIVE TrimRight(_)
TrimRight(s) ==
    IF Len(s) > 0 /\ s[Len(s)] = 47
    THEN TrimRight(SubSeq(s, 1, Len(s) - 1))
    ELSE s

\* main: enableAutoUpdate: os.Getenv("ENABLE_AUTOUPDATE_BUTTON") == "true"
enableAutoUpdate(envs) == Getenv(envs, envENABLE) = sTrue

\* main: basePath: strings.TrimRight(os.Getenv("BASE_PATH"), "/")
basePath(envs) == TrimRight(Getenv(envs, envBASEPATH))

\* main: the Server it constructs
newServer(envs) ==
    [basePath |-> basePath(envs), enableAutoUpdate |-> enableAutoUpdate(envs)]

----------------------------------------------------------------------------
(* The HTTP handlers.  A request is a record: method, path (the route of  *)
(* the mux its path has the shape of, after the base path), id (the       *)
(* {id} segment), underBase (whether the path starts with the base        *)
(* path), hasCookie and cookie (the _csrf cookie), form (the _csrf form   *)
(* value), fresh (what generateCSRFToken returns if called), api (what    *)
(* the Podman API answers if asked) and tmplErr (whether executing the    *)
(* template fails).  A response is a record: status, location, page (the  *)
(* template executed), apiCalls (the paths requested of the Podman API),  *)
(* command (whether podman auto-update was run) and categories (the       *)
(* result of buildAppCategories, if called).                              *)

\* "/apps", "/containers"
pathApps == <<47, 97, 112, 112, 115>>
pathContainers == <<47, 99, 111, 110, 116, 97, 105, 110, 101, 114, 115>>

\* nothing written yet
noResponse ==
    [status |-> 0, location |-> EmptyStr, page |-> "", apiCalls |-> <<>>,
     command |-> FALSE, categories |-> <<>>]

\* http.Error(w, ..., status)
httpError(resp, status) == [resp EXCEPT !.status = status]

\* http.Redirect(w, r, url, http.StatusTemporaryRedirect)
httpRedirect(resp, url) == [resp EXCEPT !.status = 307, !.location = url]

\* Server.podmanGet: nil, errNotFound or another error
podmanGet(api) ==
    IF api.transportErr THEN "error"
    ELSE IF api.code = 404 THEN "errNotFound"
    ELSE IF api.code # 200 THEN "error"
    ELSE IF ~api.decodable THEN "error"
    ELSE "nil"

\* the response after s.podmanGet(path, ...)
called(resp, path) == [resp EXCEPT !.apiCalls = Append(@, path)]

\* Server.render
render(resp, req, page) ==
    IF req.tmplErr
    THEN [resp EXCEPT !.status = 500, !.page = page]
    ELSE [resp EXCEPT !.status = 200, !.page = page]

\* validID: ^[a-zA-Z0-9][a-zA-Z0-9_.:-]*$, the end being the end of
\* the text
alnum == (48..57) \cup (65..90) \cup (97..122)
\* validID without the rule for the first character
validIDAnyFirst(id) ==
    /\ Len(id) > 0
    /\ \A i \in 1..Len(id) : id[i] \in alnum \cup {95, 46, 58, 45}
\* validID.MatchString(id)
validID(id) ==
    /\ Len(id) > 0
    /\ id[1] \in alnum
    /\ \A i \in 2..Len(id) : id[i] \in alnum \cup {95, 46, 58, 45}

\* the Podman API paths: the lists, and the details of one id
listPath(path) == [path |-> path, id |-> EmptyStr]
detailPath(kind, id) == [path |-> kind, id |-> id]

\* app.name of a container
hasAppName(c) == Label(c, "name") # EmptyStr

\* handleRoot without the test of the external apps
handleRootContainersOnly(srv, ext, req) ==
    LET asked == called(noResponse, listPath("/containers/json?all=true"))
    IN IF podmanGet(req.api) # "nil" THEN {httpError(asked, 500)}
       ELSE IF \E i \in 1..Len(req.api.list) : hasAppName(req.api.list[i])
       THEN {httpRedirect(asked, srv.basePath \o pathApps)}
       ELSE {httpRedirect(asked, srv.basePath \o pathContainers)}
\* Server.handleRoot; every response it may write
handleRoot(srv, ext, req) ==
    IF Len(ext) > 0
    THEN {httpRedirect(noResponse, srv.basePath \o pathApps)}
    ELSE LET asked == called(noResponse, listPath("/containers/json?all=true"))
         IN IF podmanGet(req.api) # "nil" THEN {httpError(asked, 500)}
            ELSE IF \E i \in 1..Len(req.api.list) : hasAppName(req.api.list[i])
            THEN {httpRedirect(asked, srv.basePath \o pathApps)}
            ELSE {httpRedirect(asked, srv.basePath \o pathContainers)}

\* Server.handleApps
handleApps(srv, ext, req) ==
    LET asked == called(noResponse, listPath("/containers/json?all=true"))
    IN IF podmanGet(req.api) # "nil" THEN {httpError(asked, 500)}
       ELSE {render([asked EXCEPT !.categories = cats], req, "apps.html") :
             cats \in buildAppCategories(req.api.list, ext)}

\* Server.handleContainers
handleContainers(srv, ext, req) ==
    LET asked == called(noResponse, listPath("/containers/json?all=true"))
    IN IF podmanGet(req.api) # "nil" THEN {httpError(asked, 500)}
       ELSE {render(asked, req, "containers.html")}

\* Server.handleImages
handleImages(srv, ext, req) ==
    LET asked == called(noResponse, listPath("/images/json"))
    IN IF podmanGet(req.api) # "nil" THEN {httpError(asked, 500)}
       ELSE {render(asked, req, "images.html")}

\* the shape handleContainer and handleImage share
handleDetail(kind, page, req) ==
    IF ~validID(req.id) THEN {httpError(noResponse, 400)}
    ELSE LET asked == called(noResponse, detailPath(kind, req.id))
             err == podmanGet(req.api)
         IN IF err = "errNotFound" THEN {httpError(asked, 404)}
            ELSE IF err # "nil" THEN {httpError(asked, 500)}
            ELSE {render(asked, req, page)}

\* Server.handleContainer
handleContainer(srv, ext, req) ==
    handleDetail("/containers/", "container.html", req)

\* Server.handleImage
handleImage(srv, ext, req) == handleDetail("/images/", "image.html", req)

\* handleAutoUpdate without the test of enableAutoUpdate
handleAutoUpdateUngated(srv, ext, req) ==
    {render([noResponse EXCEPT !.command = TRUE], req, "autoupdate.html")}
\* Server.handleAutoUpdate
handleAutoUpdate(srv, ext, req) ==
    IF ~srv.enableAutoUpdate THEN {httpError(noResponse, 404)}
    ELSE {render([noResponse EXCEPT !.command = TRUE], req,
                 "autoupdate.html")}

\* what a handler invocation leaves: the handler and its response
invoked(handler, resps) == {[handler |-> handler, resp |-> r] : r \in resps}

\* the mux answers by itself: no handler runs
unhandled(status) == invoked("", {httpError(noResponse, status)})

\* Server.newMux: the routes.  A GET pattern serves HEAD too; a path no
\* pattern matches is answered 404, a path that some pattern matches with
\* another method 405; {id} matches one non-empty segment.
mux(srv, ext, req) ==
    LET get == req.method \in {"GET", "HEAD"}
        post == req.method = "POST"
    IN CASE req.path = "/" ->
              IF get THEN invoked("handleRoot", handleRoot(srv, ext, req))
              ELSE unhandled(405)
         [] req.path = "/apps" ->
              IF get THEN invoked("handleApps", handleApps(srv, ext, req))
              ELSE unhandled(405)
         [] req.path = "/containers" ->
              IF get
              THEN invoked("handleContainers", handleContainers(srv, ext, req))
              ELSE unhandled(405)
         [] req.path = "/container/{id}" ->
              IF req.id = EmptyStr THEN unhandled(404)
              ELSE IF get
              THEN invoked("handleContainer", handleContainer(srv, ext, req))
              ELSE unhandled(405)
         [] req.path = "/images" ->
              IF get THEN invoked("handleImages", handleImages(srv, ext, req))
              ELSE unhandled(405)
         [] req.path = "/image/{id}" ->
              IF req.id = EmptyStr THEN unhandled(404)
              ELSE IF get
              THEN invoked("handleImage", handleImage(srv, ext, req))
              ELSE unhandled(405)
         [] req.path = "/auto-update" ->
              IF post
              THEN invoked("handleAutoUpdate", handleAutoUpdate(srv, ext, req))
              ELSE unhandled(405)
         [] OTHER -> unhandled(404)

\* main: handler = mux, or http.StripPrefix(s.basePath, mux) under a base
\* path, which answers 404 to a path that does not start with it
stripPrefix(srv, ext, req) ==
    IF srv.basePath # EmptyStr /\ ~req.underBase THEN unhandled(404)
    ELSE mux(srv, ext, req)

\* csrfProtect: the token of the request
csrfHasToken(req) == req.hasCookie /\ Len(req.cookie) = 64
csrfToken(req) == IF csrfHasToken(req) THEN req.cookie ELSE req.fresh

\* csrfProtect that asks a POST for the cookie only
csrfProtectCookieOnly(srv, ext, req) ==
    LET token == csrfToken(req)
        exchange == [req |-> req, token |-> token,
                     setCookie |-> ~csrfHasToken(req)]
    IN IF req.method = "POST" /\ ~csrfHasToken(req)
       THEN {exchange @@ [forwarded |-> FALSE, handler |-> "",
                          resp |-> httpError(noResponse, 403)]}
       ELSE {exchange @@ [forwarded |-> TRUE] @@ x :
             x \in stripPrefix(srv, ext, req)}
\* csrfProtect around the handler of main: the exchanges a request may
\* end in.  forwarded tells whether next.ServeHTTP was called.
csrfProtect(srv, ext, req) ==
    LET token == csrfToken(req)
        exchange == [req |-> req, token |-> token,
                     setCookie |-> ~csrfHasToken(req)]
    IN IF req.method = "POST" /\ req.form # token
       THEN {exchange @@ [forwarded |-> FALSE, handler |-> "",
                          resp |-> httpError(noResponse, 403)]}
       ELSE {exchange @@ [forwarded |-> TRUE] @@ x :
             x \in stripPrefix(srv, ext, req)}

----------------------------------------------------------------------------
(* Inputs. *)

\* The label sets a container may carry; id tags the icon, description,
\* url and subtitle labels so that their origin shows in the result.
MkLabels(id, name, category, sortIndex) ==
    [k \in {"name", "category", "sort-index", "icon", "description", "url",
            "subtitle"} \ ((IF sortIndex = EmptyStr THEN {"sort-index"} ELSE {})
                           \cup (IF name = EmptyStr THEN {"name"} ELSE {})) |->
        CASE k = "name" -> name
          [] k = "category" -> category
          [] k = "sort-index" -> sortIndex
          [] k = "icon" -> Tag(105, id)
          [] k = "description" -> Tag(100, id)
          [] k = "url" -> Tag(117, id)
          [] k = "subtitle" -> Tag(115, id)]

\* the label maps of the container with ID id: a nil map, labels without
\* a name, and the named ones
LabelSets(id) ==
    {<<>>} \cup {MkLabels(id, EmptyStr, sM, s1)}
    \cup {MkLabels(id, n, c, x) : n \in {sB, sb}, c \in {EmptyStr, sM},
                                  x \in {EmptyStr, s1}}

\* the container lists; the i-th container has ID i.  State is not read by
\* buildAppCategories: the containers of odd ID are exited, the others run.
ContainerLists ==
    UNION {{[i \in 1..n |->
                [ID |-> i,
                 State |-> IF i % 2 = 1 THEN sExited ELSE sRunning,
                 Labels |-> l[i]]] :
            l \in {f \in [1..n -> UNION {LabelSets(i) : i \in 1..n}] :
                       \A i \in 1..n : f[i] \in LabelSets(i)}} :
           n \in 0..MaxContainers}

\* the apps parseExternalApps may return at position pos of its result: a
\* non-empty Name, no Subtitle, no Containers; pos tags the other fields
ExternalDecls(pos) ==
    {[Name |-> d[1], Icon |-> Tag(73, pos), Category |-> d[2],
      SortIndex |-> d[3], Subtitle |-> EmptyStr,
      Description |-> Tag(68, pos), URL |-> Tag(85, pos), Containers |-> <<>>] :
     d \in {<<sB, sZ, 0>>, <<sC, Uncategorized, 0>>, <<sC, EmptyStr, 1>>}}

ExternalLists ==
    UNION {{f \in [1..n -> UNION {ExternalDecls(i) : i \in 1..n}] :
                \A i \in 1..n : f[i] \in ExternalDecls(i)} :
           n \in 0..MaxExternal}

----------------------------------------------------------------------------
(* The state machine. *)

Init ==
    /\ externalApps \in ExternalLists
    /\ containers \in ContainerLists
    /\ history = <<>>
    /\ environ = <<>>
    /\ envApps = <<>>
    /\ states = <<>>
    /\ panicked = FALSE
    /\ calls = <<>>
    /\ server = zeroServer
    /\ served = <<>>

\* s.buildAppCategories(containers)
BuildAppCategories ==
    /\ Len(history) < MaxCalls
    /\ \E result \in buildAppCategories(containers, externalApps) :
           history' = Append(history, result)
    /\ externalApps' = externalAppsAfter(externalApps)
    /\ containers' = containersAfter(containers)
    /\ UNCHANGED <<environ, envApps, states, panicked, calls,
                 server, served>>

Next == BuildAppCategories

Spec == Init /\ [][Next]_vars

----------------------------------------------------------------------------
(* appState on its own: every sequence of containers in the states of     *)
(* StatePool, up to MaxStateLen long.                                     *)

StatePool == {sRunning, sExited, sCreated, sRunningCapital}

StateLists ==
    UNION {{[i \in 1..n |-> [ID |-> i, State |-> st[i], Labels |-> <<>>]] :
            st \in [1..n -> StatePool]} :
           n \in 0..MaxStateLen}

InitState ==
    /\ externalApps = <<>>
    /\ containers \in StateLists
    /\ history = <<>>
    /\ environ = <<>>
    /\ envApps = <<>>
    /\ states = <<>>
    /\ panicked = FALSE
    /\ calls = <<>>
    /\ server = zeroServer
    /\ served = <<>>

\* appState(containers)
AppState ==
    /\ ~panicked
    /\ Len(states) < MaxCalls
    /\ IF appStatePanics(containers)
       THEN panicked' = TRUE /\ UNCHANGED states
       ELSE states' = Append(states, appState(containers)) /\ UNCHANGED panicked
    /\ UNCHANGED <<externalApps, containers, history, environ, envApps, calls,
                 server, served>>

NextState == AppState

SpecState == InitState /\ [][NextState]_vars

----------------------------------------------------------------------------
(* parseExternalApps at startup: every environment of up to MaxEnv        *)
(* entries of EnvPool, in every order.                                    *)

\* the keys "R", "W", "A_B"
kR == <<82>>
kW == <<87>>
kAB == <<65, 95, 66>>

\* "_NAME", "_ICON", "_CATEGORY", "_SORT_INDEX", "_SUBTITLE",
\* "_DESCRIPTION", "_URL"
sfxNAME == <<95, 78, 65, 77, 69>>
sfxICON == <<95, 73, 67, 79, 78>>
sfxCATEGORY == <<95, 67, 65, 84, 69, 71, 79, 82, 89>>
sfxSORTINDEX == <<95, 83, 79, 82, 84, 95, 73, 78, 68, 69, 88>>
sfxSUBTITLE == <<95, 83, 85, 66, 84, 73, 84, 76, 69>>
sfxDESCRIPTION == <<95, 68, 69, 83, 67, 82, 73, 80, 84, 73, 79, 78>>
sfxURL == <<95, 85, 82, 76>>

\* the entry "var=val" of the environment
Entry(var, val) == var \o <<61>> \o val

\* the variable PODFATHER_APP_<key><sfx>
EnvVar(key, sfx) == prefix \o key \o sfx

\* entries that declare a field of a key: R has a name, a url with an "="
\* in it, a sort index and a subtitle; W has an empty name and an icon;
\* A_B has a name and a category
RegularPool ==
    << Entry(EnvVar(kR, sfxNAME), sC),
       Entry(EnvVar(kR, sfxURL), <<117, 61, 49>>),
       Entry(EnvVar(kR, sfxSORTINDEX), <<49, 50>>),
       Entry(EnvVar(kR, sfxSUBTITLE), Tag(115, 1)),
       Entry(EnvVar(kW, sfxNAME), EmptyStr),
       Entry(EnvVar(kW, sfxICON), Tag(105, 2)),
       Entry(EnvVar(kAB, sfxNAME), sB),
       Entry(EnvVar(kAB, sfxCATEGORY), sM) >>

\* the values of the entries of DegeneratePool
DegenerateValues == {sZ, Tag(120, 1), Tag(120, 2), Tag(120, 3)}

\* PODFATHER_APP__NAME=Z (empty key), PODFATHER_APP_R_COLOR=x1 and
\* PODFATHER_APP_NAME=x2 (no recognized suffix), XPODFATHER_APP_R_NAME=x3
\* (not starting with the prefix)
DegeneratePool ==
    << Entry(EnvVar(EmptyStr, sfxNAME), sZ),
       Entry(EnvVar(kR, <<95, 67, 79, 76, 79, 82>>), Tag(120, 1)),
       Entry(prefix \o <<78, 65, 77, 69>>, Tag(120, 2)),
       Entry(<<88>> \o EnvVar(kR, sfxNAME), Tag(120, 3)) >>

\* an entry without "=": PODFATHER_APP_R_ICON
MalformedPool == << EnvVar(kR, sfxICON) >>

EnvPool == RegularPool \o DegeneratePool \o MalformedPool

\* the environments: no variable twice
Environs ==
    UNION {{[i \in 1..n |-> EnvPool[f[i]]] :
            f \in {g \in [1..n -> 1..Len(EnvPool)] :
                       \A i, j \in 1..n : i # j => g[i] # g[j]}} :
           n \in 0..MaxEnv}

InitParse ==
    /\ externalApps = <<>>
    /\ containers = <<>>
    /\ history = <<>>
    /\ environ \in Environs
    /\ envApps = <<>>
    /\ states = <<>>
    /\ panicked = FALSE
    /\ calls = <<>>
    /\ server = zeroServer
    /\ served = <<>>

\* main: the Server it constructs from the environment, externalApps being
\* parseExternalApps()
ParseExternalApps ==
    /\ ~panicked
    /\ envApps = <<>>
    /\ IF parsePanics(environ)
       THEN panicked' = TRUE /\ UNCHANGED <<envApps, externalApps, server>>
       ELSE /\ \E result \in parseExternalApps(environ) :
                   /\ envApps' = <<result>>
                   /\ externalApps' = result
            /\ server' = newServer(environ)
            /\ UNCHANGED panicked
    /\ UNCHANGED <<containers, history, environ, states, calls, served>>

NextParse == ParseExternalApps

SpecParse == InitParse /\ [][NextParse]_vars

----------------------------------------------------------------------------
(* Sort indexes from startup to the apps page: the key R of the           *)
(* environment and the one container carry the strings of SortPool as     *)
(* their sort index, or none.                                             *)

\* strings for a sort index, each with the int that strconv.Atoi returns
\* for it without an error, or with 0 when it returns an error: "", "1",
\* "-1", "12", "+2", "007", "-0", "x", "1x", "-", " 1", "1_0", "1.5",
\* "0x1F", "99999999999999999999", "-9223372036854775809"
SortPool ==
    << [s |-> EmptyStr, v |-> 0],
       [s |-> <<49>>, v |-> 1],
       [s |-> <<45, 49>>, v |-> 0 - 1],
       [s |-> <<49, 50>>, v |-> 12],
       [s |-> <<43, 50>>, v |-> 2],
       [s |-> <<48, 48, 55>>, v |-> 7],
       [s |-> <<45, 48>>, v |-> 0],
       [s |-> <<120>>, v |-> 0],
       [s |-> <<49, 120>>, v |-> 0],
       [s |-> <<45>>, v |-> 0],
       [s |-> <<32, 49>>, v |-> 0],
       [s |-> <<49, 95, 48>>, v |-> 0],
       [s |-> <<49, 46, 53>>, v |-> 0],
       [s |-> <<48, 120, 49, 70>>, v |-> 0],
       [s |-> <<57, 57, 57, 57, 57, 57, 57, 57, 57, 57,
                57, 57, 57, 57, 57, 57, 57, 57, 57, 57>>, v |-> 0],
       [s |-> <<45>> \o SubSeq(minIntDigits, 1, 18) \o <<57>>, v |-> 0] >>

SortStrings == {SortPool[i].s : i \in 1..Len(SortPool)}

\* R has a name and, before or after it, possibly a sort index
SortEnvirons ==
    {<<Entry(EnvVar(kR, sfxNAME), sC)>>}
    \cup {<<Entry(EnvVar(kR, sfxNAME), sC), Entry(EnvVar(kR, sfxSORTINDEX), x)>> :
          x \in SortStrings}
    \cup {<<Entry(EnvVar(kR, sfxSORTINDEX), x), Entry(EnvVar(kR, sfxNAME), sC)>> :
          x \in SortStrings}

\* one container named B, without a sort-index label or with one
SortContainerLists ==
    {<<[ID |-> 1, State |-> sRunning, Labels |-> MkLabels(1, sB, sM, EmptyStr)]>>}
    \cup {<<[ID |-> 1, State |-> sRunning,
             Labels |-> MapPut(MkLabels(1, sB, sM, EmptyStr), "sort-index", x)]>> :
          x \in SortStrings}

InitSort ==
    /\ externalApps = <<>>
    /\ containers \in SortContainerLists
    /\ history = <<>>
    /\ environ \in SortEnvirons
    /\ envApps = <<>>
    /\ states = <<>>
    /\ panicked = FALSE
    /\ calls = <<>>
    /\ server = zeroServer
    /\ served = <<>>

\* GET /apps, served once main has set up the Server
ServeApps ==
    /\ envApps # <<>>
    /\ BuildAppCategories

NextSort == ParseExternalApps \/ ServeApps

SpecSort == InitSort /\ [][NextSort]_vars

----------------------------------------------------------------------------
(* The three functions on inputs of every shape.                          *)

\* entries of the environment: "", "=", "A=1", "_NAME=Q",
\* "PODFATHER_APP_=x", "PODFATHER_APP__URL=", "PODFATHER_APP_R_ICON",
\* "PODFATHER_APP_R_NAME=C", "PODFATHER_APP_R_SORT_INDEX=1x"
ShapeEnvPool ==
    << EmptyStr,
       <<61>>,
       <<65, 61, 49>>,
       Entry(sfxNAME, <<81>>),
       Entry(prefix, <<120>>),
       Entry(EnvVar(EmptyStr, sfxURL), EmptyStr),
       EnvVar(kR, sfxICON),
       Entry(EnvVar(kR, sfxNAME), sC),
       Entry(EnvVar(kR, sfxSORTINDEX), <<49, 120>>) >>

\* the environments of at most two of these entries
ShapeEnvirons ==
    {<<>>} \cup {<<ShapeEnvPool[i]>> : i \in 1..Len(ShapeEnvPool)}
    \cup {<<ShapeEnvPool[p[1]], ShapeEnvPool[p[2]]>> :
          p \in {q \in (1..Len(ShapeEnvPool)) \X (1..Len(ShapeEnvPool)) :
                     q[1] # q[2]}}

\* container lists: the nil list, nil Labels, labels without a name, a
\* malformed sort index, an empty State, the State "unknown"
ShapeContainerLists ==
    { <<>>,
      <<[ID |-> 1, State |-> sUnknown, Labels |-> MkLabels(1, sB, sM, s1)]>>,
      <<[ID |-> 1, State |-> sExited, Labels |-> <<>>]>>,
      <<[ID |-> 1, State |-> EmptyStr, Labels |-> MkLabels(1, EmptyStr, sM, s1)]>>,
      <<[ID |-> 1, State |-> sCreated,
         Labels |-> MkLabels(1, sB, EmptyStr, <<49, 120>>)]>>,
      <<[ID |-> 1, State |-> EmptyStr, Labels |-> <<>>],
        [ID |-> 2, State |-> sRunning, Labels |-> MkLabels(2, sC, sM, EmptyStr)]>>,
      <<[ID |-> 1, State |-> sExited, Labels |-> MkLabels(1, sC, EmptyStr, <<45>>)],
        [ID |-> 2, State |-> EmptyStr, Labels |-> <<>>]>> }

InitShape ==
    /\ externalApps = <<>>
    /\ containers \in ShapeContainerLists
    /\ history = <<>>
    /\ environ \in ShapeEnvirons
    /\ envApps = <<>>
    /\ states = <<>>
    /\ panicked = FALSE
    /\ calls = <<>>
    /\ server = zeroServer
    /\ served = <<>>

NextShape == ParseExternalApps \/ ServeApps \/ AppState

SpecShape == InitShape /\ [][NextShape]_vars

----------------------------------------------------------------------------
(* Concurrent requests for the apps page: every request runs              *)
(* buildAppCategories on its own container list, loop iteration by loop   *)
(* iteration, and the steps of the requests interleave in every way.      *)

\* the requests served at the same time, each by its own goroutine
Requests == {"r1", "r2"}

\* the lists that podmanGet hands to the requests
ConcContainerLists ==
    { <<>>,
      <<[ID |-> 1, State |-> sRunning, Labels |-> MkLabels(1, sB, sM, s1)]>>,
      <<[ID |-> 1, State |-> sExited, Labels |-> MkLabels(1, sC, EmptyStr, EmptyStr)]>>,
      <<[ID |-> 1, State |-> sRunning, Labels |-> MkLabels(1, sb, sM, EmptyStr)],
        [ID |-> 2, State |-> sRunning, Labels |-> MkLabels(2, sB, sM, s1)]>> }

\* the external apps of the Server
ConcExternalLists ==
    {<<>>} \cup {<<a>> : a \in ExternalDecls(1)}
    \cup {<<a, b>> : a \in ExternalDecls(1), b \in ExternalDecls(2)}

\* the locals of a call that has just been entered with the list cs
newCall(cs) ==
    [pc |-> "group", list |-> cs, i |-> 1, appMap |-> <<>>, catMap |-> <<>>,
     result |-> <<>>]

\* a call that works on the appMap of another call, as if appMap were a
\* variable of the package
appMapShared(cs, r) == cs[CHOOSE q \in DOMAIN cs : q # r].appMap

\* the appMap of call r: appMap := make(map[string]*App) is local
appMapOf(cs, r) == cs[r].appMap

InitConc ==
    /\ externalApps \in ConcExternalLists
    /\ containers = <<>>
    /\ history = <<>>
    /\ environ = <<>>
    /\ envApps = <<externalApps>>
    /\ states = <<>>
    /\ panicked = FALSE
    /\ calls \in {[r \in Requests |-> newCall(l[r])] :
                  l \in [Requests -> ConcContainerLists]}
    /\ server = zeroServer
    /\ served = <<>>

\* one iteration of the loop over containers, or its end
GroupNext(r) ==
    LET c == calls[r]
    IN  /\ c.pc = "group"
        /\ calls' = [calls EXCEPT ![r] =
               IF c.i > Len(c.list) THEN [c EXCEPT !.pc = "merge", !.i = 1]
               ELSE [c EXCEPT !.appMap = groupStep(appMapOf(calls, r), c.list[c.i]),
                              !.i = c.i + 1]]
        /\ UNCHANGED <<externalApps, containers, history, environ, envApps,
                       states, panicked,
                       server, served>>

\* one iteration of the loop over s.externalApps, or its end
MergeNext(r) ==
    LET c == calls[r]
    IN  /\ c.pc = "merge"
        /\ calls' = [calls EXCEPT ![r] =
               IF c.i > Len(externalApps) THEN [c EXCEPT !.pc = "bucket"]
               ELSE [c EXCEPT !.appMap = mergeStep(appMapOf(calls, r),
                                                   externalApps[c.i]),
                              !.i = c.i + 1]]
        /\ externalApps' = externalAppsAfter(externalApps)
        /\ UNCHANGED <<containers, history, environ, envApps, states, panicked,
                       server, served>>

\* the loop over appMap that fills catMap
BucketNext(r) ==
    LET c == calls[r]
    IN  /\ c.pc = "bucket"
        /\ \E order \in Orders(DOMAIN appMapOf(calls, r)) :
               calls' = [calls EXCEPT ![r] =
                   [c EXCEPT !.catMap = bucketLoop(appMapOf(calls, r), order, 1, <<>>),
                             !.pc = "sort"]]
        /\ UNCHANGED <<externalApps, containers, history, environ, envApps,
                       states, panicked,
                       server, served>>

\* the loop that sorts each bucket
SortNext(r) ==
    LET c == calls[r]
    IN  /\ c.pc = "sort"
        /\ \E sortedMap \in sortBuckets(c.catMap) :
               calls' = [calls EXCEPT ![r] =
                   [c EXCEPT !.catMap = sortedMap, !.pc = "assemble"]]
        /\ UNCHANGED <<externalApps, containers, history, environ, envApps,
                       states, panicked,
                       server, served>>

\* the categories slice, its sort, and the return
AssembleNext(r) ==
    LET c == calls[r]
    IN  /\ c.pc = "assemble"
        /\ \E categories \in assemble(c.catMap) :
               calls' = [calls EXCEPT ![r] =
                   [c EXCEPT !.result = categories, !.pc = "done"]]
        /\ UNCHANGED <<externalApps, containers, history, environ, envApps,
                       states, panicked,
                       server, served>>

NextConc ==
    \E r \in Requests :
        \/ GroupNext(r)
        \/ MergeNext(r)
        \/ BucketNext(r)
        \/ SortNext(r)
        \/ AssembleNext(r)

SpecConc == InitConc /\ [][NextConc]_vars

----------------------------------------------------------------------------
(* The server behind csrfProtect: main constructs the Server from the     *)
(* environment, then requests are served one after the other.             *)

\* the entries the environment may hold: ENABLE_AUTOUPDATE_BUTTON as
\* "true", "TRUE", "1", "true " or empty, BASE_PATH as "/pf/" or "/", and
\* the external app C
EnableValues == {sTrue, <<84, 82, 85, 69>>, <<49>>, <<116, 114, 117, 101, 32>>,
                 EmptyStr}
BasePathValues == {<<47, 112, 102, 47>>, <<47>>}
HttpEnvirons ==
    {e \o b \o a :
     e \in {<<>>} \cup {<<Entry(envENABLE, v)>> : v \in EnableValues},
     b \in {<<>>} \cup {<<Entry(envBASEPATH, v)>> : v \in BasePathValues},
     a \in {<<>>, <<Entry(EnvVar(kR, sfxNAME), sC)>>}}

\* tokens as generateCSRFToken makes them: 64 characters
Token(ch) == [i \in 1..64 |-> ch]

\* the _csrf cookie of a request: none, empty, one character short or long
\* of a token, or the token aaa...
CookiePool ==
    {[hasCookie |-> FALSE, cookie |-> EmptyStr]}
    \cup {[hasCookie |-> TRUE, cookie |-> v] :
          v \in {EmptyStr, [i \in 1..63 |-> 97], Token(97),
                 [i \in 1..65 |-> 97]}}

\* the _csrf form value, and the token generateCSRFToken would return
FormPool == {EmptyStr, Token(97), Token(98), [i \in 1..63 |-> 97]}
FreshPool == {Token(98), Token(99)}

\* what the Podman API may answer: no answer, 404, 500, 204, 200 with a
\* body that does not decode, 200 with the list cs
ApiFailures ==
    {[transportErr |-> TRUE, code |-> 0, decodable |-> FALSE, list |-> <<>>]}
    \cup {[transportErr |-> FALSE, code |-> c, decodable |-> TRUE,
           list |-> <<>>] : c \in {404, 500, 204}}
    \cup {[transportErr |-> FALSE, code |-> 200, decodable |-> FALSE,
           list |-> <<>>]}
ApiOk(cs) == [transportErr |-> FALSE, code |-> 200, decodable |-> TRUE,
              list |-> cs]

\* the container lists the API may return: none, without app name, with a
\* nil label map, with an empty app name, named, and mixed
HttpContainerLists ==
    LET c(i, labels) == [ID |-> i, State |-> sRunning, Labels |-> labels]
    IN { <<>>,
         <<c(1, <<>>)>>,
         <<c(1, MkLabels(1, EmptyStr, sM, s1))>>,
         <<c(1, [name |-> EmptyStr])>>,
         <<c(1, MkLabels(1, sB, sM, s1))>>,
         <<c(1, MkLabels(1, sC, EmptyStr, EmptyStr))>>,
         <<c(1, <<>>), c(2, MkLabels(2, sB, EmptyStr, EmptyStr))>> }

\* the ids: a, 9, sha256:ab, A_b.c-d match validID; -a, _a, .a, "a b",
\* a/b, a$, a followed by a newline, and the byte 233 do not; the empty id
\* is a path no route matches
IdPool ==
    << [id |-> <<97>>, ok |-> TRUE],
       [id |-> <<57>>, ok |-> TRUE],
       [id |-> <<115, 104, 97, 50, 53, 54, 58, 97, 98>>, ok |-> TRUE],
       [id |-> <<65, 95, 98, 46, 99, 45, 100>>, ok |-> TRUE],
       [id |-> <<45, 97>>, ok |-> FALSE],
       [id |-> <<95, 97>>, ok |-> FALSE],
       [id |-> <<46, 97>>, ok |-> FALSE],
       [id |-> <<97, 32, 98>>, ok |-> FALSE],
       [id |-> <<97, 47, 98>>, ok |-> FALSE],
       [id |-> <<97, 36>>, ok |-> FALSE],
       [id |-> <<97, 10>>, ok |-> FALSE],
       [id |-> <<233>>, ok |-> FALSE],
       [id |-> EmptyStr, ok |-> FALSE] >>
Ids == {IdPool[i].id : i \in 1..Len(IdPool)}

Routes == {"/", "/apps", "/containers", "/container/{id}", "/images",
           "/image/{id}", "/auto-update", "/other"}
DetailRoutes == {"/container/{id}", "/image/{id}"}

\* every path with every id and every answer of the API that matters to
\* it
Targets ==
    {[path |-> p, id |-> EmptyStr, api |-> a] :
     p \in {"/", "/apps"},
     a \in ApiFailures \cup {ApiOk(cs) : cs \in HttpContainerLists}}
    \cup {[path |-> p, id |-> EmptyStr, api |-> a] :
          p \in {"/containers", "/images"},
          a \in ApiFailures \cup {ApiOk(<<>>)}}
    \cup {[path |-> p, id |-> i, api |-> a] :
          p \in DetailRoutes, i \in Ids,
          a \in ApiFailures \cup {ApiOk(<<>>)}}
    \cup {[path |-> p, id |-> EmptyStr, api |-> ApiOk(<<>>)] :
          p \in {"/auto-update", "/other"}}

\* the requests: every target by GET and by POST with the token of its
\* cookie, the template failing or not; and every route by every method
\* with every cookie, form value and fresh token, under the base path or
\* not
RequestPool ==
    {t @@ [method |-> m, underBase |-> TRUE, hasCookie |-> TRUE,
           cookie |-> Token(97), form |-> Token(97), fresh |-> Token(98),
           tmplErr |-> e] :
     t \in Targets, m \in {"GET", "POST"}, e \in BOOLEAN}
    \cup
    {[path |-> p, id |-> IF p \in DetailRoutes THEN <<97>> ELSE EmptyStr,
      api |-> ApiOk(<<>>), method |-> m, underBase |-> u, form |-> f,
      fresh |-> g, tmplErr |-> FALSE] @@ c :
     p \in Routes, m \in {"GET", "HEAD", "POST", "PUT"}, u \in BOOLEAN,
     f \in FormPool, g \in FreshPool, c \in CookiePool}

InitHttp ==
    /\ externalApps = <<>>
    /\ containers = <<>>
    /\ history = <<>>
    /\ environ \in HttpEnvirons
    /\ envApps = <<>>
    /\ states = <<>>
    /\ panicked = FALSE
    /\ calls = <<>>
    /\ server = zeroServer
    /\ served = <<>>

\* http.ListenAndServe: one request through csrfProtect, the base path and
\* the mux to its handler.  No handler writes to the Server, so every
\* request finds it as main left it: served holds the exchange of one
\* request.
Serve ==
    /\ envApps # <<>>
    /\ served = <<>>
    /\ \E req \in RequestPool :
           \E x \in csrfProtect(server, externalApps, req) :
               served' = <<x>>
    /\ UNCHANGED <<externalApps, containers, history, environ, envApps,
                 states, panicked, calls, server>>

NextHttp == ParseExternalApps \/ Serve

SpecHttp == InitHttp /\ [][NextHttp]_vars

----------------------------------------------------------------------------
(* parseExternalApps on variable names whose key holds underscores and    *)
(* the words of the suffixes.                                             *)

\* the keys "X_NAME" and "R_SORT" (kR and kAB are the others)
kXNAME == <<88, 95, 78, 65, 77, 69>>
kRSORT == <<82, 95, 83, 79, 82, 84>>

\* the entries, each with the key and the field it is to set, and the
\* number a sort index stands for; PODFATHER_APP_R_SORT_INDEX is the sort
\* index of R, PODFATHER_APP_R_INDEX sets nothing
SuffixPool ==
    LET e(key, sfx, field, value, n) ==
            [entry |-> Entry(EnvVar(key, sfx), value), key |-> key,
             field |-> field, value |-> value, sortIndex |-> n]
    IN << e(kXNAME, sfxNAME, "name", Tag(110, 1), 0),
          e(kXNAME, sfxURL, "url", Tag(117, 1), 0),
          e(kXNAME, sfxICON, "icon", Tag(105, 1), 0),
          e(kRSORT, sfxNAME, "name", Tag(110, 2), 0),
          e(kRSORT, sfxSORTINDEX, "sort-index", <<57>>, 9),
          e(kR, sfxNAME, "name", Tag(110, 3), 0),
          e(kR, sfxSORTINDEX, "sort-index", <<55>>, 7),
          e(kR, sfxDESCRIPTION, "description", Tag(100, 3), 0),
          e(kAB, sfxNAME, "name", Tag(110, 4), 0),
          e(kAB, sfxCATEGORY, "category", Tag(99, 4), 0),
          [entry |-> Entry(EnvVar(kR, <<95, 73, 78, 68, 69, 88>>), Tag(120, 5)),
           key |-> EmptyStr, field |-> "", value |-> Tag(120, 5),
           sortIndex |-> 0] >>

\* the environments: up to MaxEnv entries, in the order of the pool (no
\* two entries set the same field of the same key, so that their order
\* decides nothing)
SuffixEnvirons ==
    {LET f == CHOOSE g \in [1..Cardinality(S) -> S] :
                  \A i, j \in 1..Cardinality(S) : i < j => g[i] < g[j]
     IN  [i \in 1..Cardinality(S) |-> SuffixPool[f[i]].entry] :
     S \in {T \in SUBSET (1..Len(SuffixPool)) : Cardinality(T) <= MaxEnv}}

InitSuffix ==
    /\ externalApps = <<>>
    /\ containers = <<>>
    /\ history = <<>>
    /\ environ \in SuffixEnvirons
    /\ envApps = <<>>
    /\ states = <<>>
    /\ panicked = FALSE
    /\ calls = <<>>
    /\ server = zeroServer
    /\ served = <<>>

NextSuffix == ParseExternalApps

SpecSuffix == InitSuffix /\ [][NextSuffix]_vars

----------------------------------------------------------------------------
(* From the environment to the apps page when two keys declare one name.  *)

\* R and W both are named C, with urls and categories of their own; A_B
\* is named B
OrderPool ==
    << Entry(EnvVar(kR, sfxNAME), sC),
       Entry(EnvVar(kW, sfxNAME), sC),
       Entry(EnvVar(kR, sfxURL), Tag(117, 1)),
       Entry(EnvVar(kW, sfxURL), Tag(117, 2)),
       Entry(EnvVar(kW, sfxCATEGORY), sM),
       Entry(EnvVar(kAB, sfxNAME), sB) >>

\* the environments: no variable twice
OrderEnvirons ==
    UNION {{[i \in 1..n |-> OrderPool[f[i]]] :
            f \in {g \in [1..n -> 1..Len(OrderPool)] :
                       \A i, j \in 1..n : i # j => g[i] # g[j]}} :
           n \in 0..MaxEnv}

\* no container, a container named C, a container named B
OrderContainerLists ==
    { <<>>,
      <<[ID |-> 1, State |-> sRunning, Labels |-> MkLabels(1, sC, sZ, s1)]>>,
      <<[ID |-> 1, State |-> sRunning,
         Labels |-> MkLabels(1, sB, EmptyStr, EmptyStr)]>> }

InitOrder ==
    /\ externalApps = <<>>
    /\ containers \in OrderContainerLists
    /\ history = <<>>
    /\ environ \in OrderEnvirons
    /\ envApps = <<>>
    /\ states = <<>>
    /\ panicked = FALSE
    /\ calls = <<>>
    /\ server = zeroServer
    /\ served = <<>>

NextOrder == ParseExternalApps \/ ServeApps

SpecOrder == InitOrder /\ [][NextOrder]_vars

----------------------------------------------------------------------------
(* What the properties speak about. *)

\* the results returned so far
Results == {history[k] : k \in 1..Len(history)}

\* the places <<category, app>> of a result, and the app at a place
Positions(cats) ==
    UNION {{<<ci, ai>> : ai \in 1..Len(cats[ci].Apps)} : ci \in 1..Len(cats)}

AppAt(cats, p) == cats[p[1]].Apps[p[2]]

NamedPositions(cats, n) == {p \in Positions(cats) : AppAt(cats, p).Name = n}

\* the containers of the input that declare the app name n
Declaring(n) == {i \in 1..Len(containers) : Label(containers[i], "name") = n}

ContainerNames ==
    {Label(containers[i], "name") : i \in 1..Len(containers)} \ {EmptyStr}

FirstDeclaring(n) == CHOOSE i \in Declaring(n) : \A j \in Declaring(n) : i <= j

ContainersNamed(n) ==
    LET declares(c) == Label(c, "name") = n
    IN  SelectSeq(containers, declares)

\* the integer a sort-index label stands for
LabelInt(s) == IF Atoi(s).err THEN 0 ELSE Atoi(s).v

\* the app is what the containers declaring n make it
ContainerDerived(app, n) ==
    LET c == containers[FirstDeclaring(n)]
    IN  /\ app.Name = n
        /\ app.Icon = Label(c, "icon")
        /\ app.Category = Label(c, "category")
        /\ app.SortIndex = LabelInt(Label(c, "sort-index"))
        /\ app.Description = Label(c, "description")
        /\ app.URL = Label(c, "url")
        /\ app.Containers = ContainersNamed(n)

----------------------------------------------------------------------------
(* C1. Merge priority: when an external app has the name some container   *)
(* declares, the result holds exactly one app of that name, all its       *)
(* fields are the container-derived ones, and every category of the       *)
(* result holds an app that belongs to it, so none exists only because    *)
(* of the discarded external app.                                         *)
MergePriority ==
    \A cats \in Results : \A e \in 1..Len(externalApps) :
        LET n == externalApps[e].Name
        IN  n \in ContainerNames =>
                /\ Cardinality(NamedPositions(cats, n)) = 1
                /\ \A p \in NamedPositions(cats, n) :
                       ContainerDerived(AppAt(cats, p), n)
                /\ \A ci \in 1..Len(cats) : \E ai \in 1..Len(cats[ci].Apps) :
                       LET a == cats[ci].Apps[ai]
                       IN  cats[ci].Name =
                               IF a.Category = EmptyStr THEN Uncategorized
                               ELSE a.Category

\* a result for an external app that collides with a container's name and
\* whose own category is not in the result
MergePriorityWitness ==
    \E cats \in Results : \E e \in 1..Len(externalApps) :
        /\ externalApps[e].Name \in ContainerNames
        /\ \A ci \in 1..Len(cats) : cats[ci].Name # externalApps[e].Category

(* C2. Name uniqueness: no two apps of a result, in whatever categories,  *)
(* have the same Name.                                                    *)
NameUniqueness ==
    \A cats \in Results : \A p, q \in Positions(cats) :
        AppAt(cats, p).Name = AppAt(cats, q).Name => p = q

\* a result for an external list that repeats a name which a container
\* declares as well
NameUniquenessWitness ==
    \E cats \in Results : \E e1, e2 \in 1..Len(externalApps) :
        /\ e1 # e2
        /\ externalApps[e1].Name = externalApps[e2].Name
        /\ externalApps[e1].Name \in ContainerNames
        /\ Cardinality(Positions(cats)) >= 2

(* C3. Grouping: the containers that declare one app name are the         *)
(* Containers of the single app of that name, in their input order, and   *)
(* an app holds no container that declares another name.                  *)
GroupingCorrect ==
    \A cats \in Results :
        /\ \A n \in ContainerNames :
               /\ Cardinality(NamedPositions(cats, n)) = 1
               /\ \A p \in NamedPositions(cats, n) :
                      AppAt(cats, p).Containers = ContainersNamed(n)
        /\ \A p \in Positions(cats) :
               \A k \in 1..Len(AppAt(cats, p).Containers) :
                   Label(AppAt(cats, p).Containers[k], "name") = AppAt(cats, p).Name

\* a result with an app of two containers
GroupingWitness ==
    \E cats \in Results : \E p \in Positions(cats) :
        /\ Len(AppAt(cats, p).Containers) >= 2
        /\ AppAt(cats, p).Containers[1].ID < AppAt(cats, p).Containers[2].ID

(* C4. First-wins metadata: Icon, Category, SortIndex, Description and    *)
(* URL of a container-derived app are the labels of the first container   *)
(* declaring its name; the later ones only add themselves to Containers.  *)
FirstWinsMetadata ==
    \A cats \in Results : \A n \in ContainerNames :
        \A p \in NamedPositions(cats, n) :
            LET app == AppAt(cats, p)
                c == containers[FirstDeclaring(n)]
            IN  /\ app.Icon = Label(c, "icon")
                /\ app.Category = Label(c, "category")
                /\ app.SortIndex = LabelInt(Label(c, "sort-index"))
                /\ app.Description = Label(c, "description")
                /\ app.URL = Label(c, "url")
                /\ Len(app.Containers) = Cardinality(Declaring(n))

\* a result for two containers of one name that differ in the category and
\* the sort-index labels
FirstWinsWitness ==
    /\ Len(history) > 0
    /\ \E i, j \in 1..Len(containers) :
           /\ i < j
           /\ Label(containers[i], "name") # EmptyStr
           /\ Label(containers[i], "name") = Label(containers[j], "name")
           /\ Label(containers[i], "category") # Label(containers[j], "category")
           /\ Label(containers[i], "sort-index") # Label(containers[j], "sort-index")

\* a before b in byte-wise lexicographic order
RECURSIVE LexBefore(_, _)
LexBefore(a, b) ==
    IF Len(b) = 0 THEN FALSE
    ELSE IF Len(a) = 0 THEN TRUE
    ELSE IF a[1] # b[1] THEN a[1] < b[1]
    ELSE LexBefore(Tail(a), Tail(b))

(* C5. Category ordering: a category named "Uncategorized" is the last    *)
(* one of a result, and the names of the other categories are strictly    *)
(* ascending in byte-wise lexicographic order.                            *)
CategoryOrdering ==
    \A cats \in Results : \A i \in 1..Len(cats) :
        /\ cats[i].Name = Uncategorized => i = Len(cats)
        /\ \A j \in (i + 1)..Len(cats) :
               cats[j].Name # Uncategorized =>
                   LexBefore(cats[i].Name, cats[j].Name)

\* a result whose categories are "M", "Z", "Uncategorized", though
\* "Uncategorized" is before "Z" in the alphabet
CategoryOrderingWitness ==
    \E cats \in Results :
        /\ Len(cats) = 3
        /\ cats[1].Name = sM
        /\ cats[2].Name = sZ
        /\ cats[3].Name = Uncategorized
        /\ LexBefore(Uncategorized, sZ)

(* C6. Within-category ordering: of two adjacent apps of a category the   *)
(* first has the smaller SortIndex, or the same SortIndex and the Name    *)
(* that is before in byte-wise lexicographic order.                       *)
WithinCategoryOrdering ==
    \A cats \in Results : \A ci \in 1..Len(cats) :
        \A ai \in 1..(Len(cats[ci].Apps) - 1) :
            LET a == cats[ci].Apps[ai]
                b == cats[ci].Apps[ai + 1]
            IN  \/ a.SortIndex < b.SortIndex
                \/ a.SortIndex = b.SortIndex /\ LexBefore(a.Name, b.Name)

\* a category of three apps: one pair ordered by SortIndex against the
\* order of the names, one pair of equal SortIndex ordered by Name
WithinCategoryWitness ==
    \E cats \in Results : \E ci \in 1..Len(cats) :
        /\ Len(cats[ci].Apps) = 3
        /\ \E ai \in 1..2 :
               /\ cats[ci].Apps[ai].SortIndex < cats[ci].Apps[ai + 1].SortIndex
               /\ LexBefore(cats[ci].Apps[ai + 1].Name, cats[ci].Apps[ai].Name)
        /\ \E ai \in 1..2 :
               cats[ci].Apps[ai].SortIndex = cats[ci].Apps[ai + 1].SortIndex

(* C7. Uncategorized normalisation: an app whose Category is empty or     *)
(* "Uncategorized" is in a category named "Uncategorized"; no category    *)
(* has an empty Name and no two categories are named "Uncategorized".     *)
UncategorizedNormalized ==
    \A cats \in Results :
        /\ \A p \in Positions(cats) :
               AppAt(cats, p).Category \in {EmptyStr, Uncategorized} =>
                   cats[p[1]].Name = Uncategorized
        /\ \A ci \in 1..Len(cats) : cats[ci].Name # EmptyStr
        /\ Cardinality({ci \in 1..Len(cats) : cats[ci].Name = Uncategorized}) <= 1

\* a category holding an app with an empty Category and an app with the
\* Category "Uncategorized"
UncategorizedWitness ==
    \E cats \in Results : \E ci \in 1..Len(cats) :
        \E ai, aj \in 1..Len(cats[ci].Apps) :
            /\ cats[ci].Apps[ai].Category = EmptyStr
            /\ cats[ci].Apps[aj].Category = Uncategorized

(* C8. Determinism: all calls made with the same container list and the   *)
(* same external app list return the same sequence of categories,         *)
(* whatever order the maps are iterated in.                               *)
AssemblyDeterministic ==
    \A i, j \in 1..Len(history) : history[i] = history[j]

\* two calls that returned several categories, one of them of several apps
DeterministicWitness ==
    /\ Len(history) >= 2
    /\ Len(history[2]) >= 2
    /\ \E ci \in 1..Len(history[2]) : Len(history[2][ci].Apps) >= 2

(* C9. Empty result: when no container declares an app name and there     *)
(* are no external apps, the result is the empty sequence.                *)
EmptyResult ==
    (ContainerNames = {} /\ Len(externalApps) = 0) =>
        \A cats \in Results : cats = <<>>

\* a result for a container with a nil label map and a container with
\* labels but no name, and no external apps
EmptyResultWitness ==
    /\ Len(history) > 0
    /\ Len(externalApps) = 0
    /\ ContainerNames = {}
    /\ \E i, j \in 1..Len(containers) :
           /\ DOMAIN containers[i].Labels = {}
           /\ DOMAIN containers[j].Labels # {}

\* the external app is in the result, in the category named cat, with its
\* declared fields and no containers
ExternalAppIn(cats, a, cat) ==
    \E p \in Positions(cats) :
        /\ cats[p[1]].Name = cat
        /\ AppAt(cats, p).Name = a.Name
        /\ AppAt(cats, p).Icon = a.Icon
        /\ AppAt(cats, p).SortIndex = a.SortIndex
        /\ AppAt(cats, p).Description = a.Description
        /\ AppAt(cats, p).URL = a.URL
        /\ AppAt(cats, p).Containers = <<>>

\* the category an app with this Category field belongs to
CategoryGivenBy(category) ==
    IF category = EmptyStr THEN Uncategorized ELSE category

(* C10, as stated. External app insertion: every external app whose       *)
(* Name no container declares is in the result, in the category given by  *)
(* its Category field, with its declared Icon, SortIndex, Description     *)
(* and URL and no containers.                                             *)
ExternalInsertionAsStated ==
    \A cats \in Results : \A e \in 1..Len(externalApps) :
        externalApps[e].Name \notin ContainerNames =>
            ExternalAppIn(cats, externalApps[e],
                          CategoryGivenBy(externalApps[e].Category))

(* C10, amended. External app insertion: every external app whose Name    *)
(* no container declares and no earlier entry of the external list has    *)
(* is in the result, in the category given by its Category field          *)
(* ("Uncategorized" when the field is empty), with its declared Icon,     *)
(* SortIndex, Description and URL and no containers.                      *)
ExternalInsertion ==
    \A cats \in Results : \A e \in 1..Len(externalApps) :
        (/\ externalApps[e].Name \notin ContainerNames
         /\ \A d \in 1..(e - 1) : externalApps[d].Name # externalApps[e].Name) =>
            ExternalAppIn(cats, externalApps[e],
                          CategoryGivenBy(externalApps[e].Category))

\* a result for an external list that declares a name twice, the first
\* time without a category, while no container declares that name
ExternalInsertionWitness ==
    /\ Len(history) > 0
    /\ \E d, e \in 1..Len(externalApps) :
           /\ d < e
           /\ externalApps[d].Name = externalApps[e].Name
           /\ externalApps[d].Name \notin ContainerNames
           /\ externalApps[d].Category = EmptyStr
           /\ externalApps[e].Category # EmptyStr

----------------------------------------------------------------------------
\* the results of the appState calls so far
StateResults == {states[k] : k \in 1..Len(states)}

(* C11. State resolution, running dominates: appState returns "running"   *)
(* whenever some container of the sequence, at whatever position, has     *)
(* exactly the State "running".                                           *)
RunningDominates ==
    (\E i \in 1..Len(containers) : containers[i].State = sRunning) =>
        \A r \in StateResults : r = sRunning

\* a result for three containers of which only the last is running, the
\* first being in the state "Running"
RunningDominatesWitness ==
    /\ Len(states) > 0
    /\ Len(containers) = 3
    /\ containers[1].State = sRunningCapital
    /\ containers[2].State = sExited
    /\ containers[3].State = sRunning

(* C12. State resolution, fallback: when no container is in the State     *)
(* "running", appState returns the State of the first container as it     *)
(* is, and "unknown" for an empty sequence.                               *)
StateFallback ==
    (\A i \in 1..Len(containers) : containers[i].State # sRunning) =>
        \A r \in StateResults :
            r = IF Len(containers) = 0 THEN sUnknown ELSE containers[1].State

\* a result for the states "exited", "created"
StateFallbackWitness ==
    /\ Len(states) > 0
    /\ Len(containers) = 2
    /\ containers[1].State = sExited
    /\ containers[2].State = sCreated

----------------------------------------------------------------------------
\* the results of the parseExternalApps calls so far
ParseResults == {envApps[k] : k \in 1..Len(envApps)}

\* the keys of EnvPool
KeyPool == {kR, kW, kAB}

\* the environment sets the variable PODFATHER_APP_<key><sfx>
Declares(key, sfx) ==
    \E i \in 1..Len(environ) :
        HasPrefix(environ[i], EnvVar(key, sfx) \o <<61>>)

\* the value of PODFATHER_APP_<key><sfx>, "" when it is not set
EnvValue(key, sfx) ==
    IF Declares(key, sfx)
    THEN LET e == CHOOSE e \in {environ[i] : i \in 1..Len(environ)} :
                      HasPrefix(e, EnvVar(key, sfx) \o <<61>>)
         IN  SubSeq(e, Len(EnvVar(key, sfx)) + 2, Len(e))
    ELSE EmptyStr

\* the keys with a non-empty NAME
NamedKeys == {key \in KeyPool : EnvValue(key, sfxNAME) # EmptyStr}

\* app carries the name, icon, category, description and url of key, and
\* of no other key
KeyApp(app, key) ==
    /\ app.Name = EnvValue(key, sfxNAME)
    /\ app.Icon = EnvValue(key, sfxICON)
    /\ app.Category = EnvValue(key, sfxCATEGORY)
    /\ app.Description = EnvValue(key, sfxDESCRIPTION)
    /\ app.URL = EnvValue(key, sfxURL)

(* C13. External parser, name required: the result of parseExternalApps   *)
(* holds exactly one app for each key with a non-empty NAME and none for  *)
(* a key without NAME or with an empty one, and the app of a key carries  *)
(* the fields of that key only.                                           *)
ParserNameRequired ==
    \A r \in ParseResults :
        /\ Len(r) = Cardinality(NamedKeys)
        /\ \E f \in [NamedKeys -> 1..Len(r)] :
               /\ \A k1, k2 \in NamedKeys : k1 # k2 => f[k1] # f[k2]
               /\ \A key \in NamedKeys : KeyApp(r[f[key]], key)

\* a result for an environment that names R and A_B and gives W an icon
\* but no name
ParserNameRequiredWitness ==
    /\ Len(envApps) = 1
    /\ NamedKeys = {kR, kAB}
    /\ Declares(kW, sfxICON)

\* the entries of the environment that are none of DegeneratePool
WithoutDegenerate ==
    SelectSeq(environ,
              LAMBDA e : \A i \in 1..Len(DegeneratePool) : e # DegeneratePool[i])

\* the field values of app
AppValues(app) ==
    {app.Name, app.Icon, app.Category, app.Subtitle, app.Description, app.URL}

(* C14. External parser, degenerate variables: a variable with an empty   *)
(* key, a variable that does not start with the prefix and a prefixed     *)
(* variable without recognized suffix contribute nothing: the result is   *)
(* one of the environment without them, and no field of an app holds one  *)
(* of their values.                                                       *)
DegenerateIgnored ==
    \A r \in ParseResults :
        /\ r \in parseExternalApps(WithoutDegenerate)
        /\ \A p \in 1..Len(r) : AppValues(r[p]) \cap DegenerateValues = {}

\* a result with an app, for an environment holding PODFATHER_APP__NAME
\* and one more degenerate variable
DegenerateIgnoredWitness ==
    /\ Len(envApps) = 1
    /\ Len(envApps[1]) = 1
    /\ Len(environ) = 3
    /\ Len(WithoutDegenerate) = 1
    /\ \E i \in 1..Len(environ) : environ[i] = DegeneratePool[1]

(* C15. External parser, subtitle: for a key with a NAME, the value of    *)
(* PODFATHER_APP_<KEY>_SUBTITLE is the Subtitle of the app returned for   *)
(* that key.                                                              *)
SubtitleRecognized ==
    \A r \in ParseResults :
        \A key \in NamedKeys :
            \E p \in 1..Len(r) :
                /\ KeyApp(r[p], key)
                /\ r[p].Subtitle = EnvValue(key, sfxSUBTITLE)

(* C16. Grouper, subtitle: the Subtitle of a container-derived app is     *)
(* the subtitle label of the first container, in input order, that        *)
(* declares the name of the app.                                          *)
GrouperSubtitle ==
    \A cats \in Results : \A n \in ContainerNames :
        \A p \in NamedPositions(cats, n) :
            AppAt(cats, p).Subtitle =
                Label(containers[FirstDeclaring(n)], "subtitle")

\* the int that SortPool gives for the string
ExpectedSortIndex(str) ==
    SortPool[CHOOSE i \in 1..Len(SortPool) : SortPool[i].s = str].v

(* C17. Sort index defaulting: in parseExternalApps and in                *)
(* buildAppCategories alike, the SortIndex of an app is the integer its   *)
(* string stands for when the string parses, and 0 when the string is     *)
(* absent, empty or does not parse; the app is there all the same, and    *)
(* no call ends in an error.                                              *)
SortIndexDefault ==
    /\ ~panicked
    /\ \A r \in ParseResults :
           /\ Len(r) = 1
           /\ r[1].Name = sC
           /\ r[1].SortIndex = ExpectedSortIndex(EnvValue(kR, sfxSORTINDEX))
    /\ \A cats \in Results :
           /\ \A p \in NamedPositions(cats, sC) :
                  AppAt(cats, p).SortIndex =
                      ExpectedSortIndex(EnvValue(kR, sfxSORTINDEX))
           /\ NamedPositions(cats, sB) # {}
           /\ \A p \in NamedPositions(cats, sB) :
                  AppAt(cats, p).SortIndex =
                      ExpectedSortIndex(Label(containers[1], "sort-index"))

\* the apps page for the sort index "1x" in the environment and the
\* sort-index label "-1"
SortIndexDefaultWitness ==
    /\ Len(history) > 0
    /\ EnvValue(kR, sfxSORTINDEX) = <<49, 120>>
    /\ Label(containers[1], "sort-index") = <<45, 49>>
    /\ \E p \in NamedPositions(history[1], sC) : AppAt(history[1], p).SortIndex = 0
    /\ \E p \in NamedPositions(history[1], sB) :
           AppAt(history[1], p).SortIndex = 0 - 1

(* C18. No loud failure: parseExternalApps, buildAppCategories and        *)
(* appState return a result for every input, the nil container list, nil  *)
(* Labels, missing and malformed labels and variables and the empty       *)
(* external list among them: no call panics, and each function has a      *)
(* result for the inputs of every state.                                  *)
NoLoudFailure ==
    /\ ~panicked
    /\ ~parsePanics(environ)
    /\ parseExternalApps(environ) # {}
    /\ buildAppCategories(containers, externalApps) # {}
    /\ ~appStatePanics(containers)
    /\ appState(containers) \in {sRunning, sUnknown}
                               \cup {containers[i].State : i \in 1..Len(containers)}

\* all three functions have returned, for a container with nil Labels and
\* an environment of an entry without "=" and a variable shorter than the
\* prefix
NoLoudFailureWitness ==
    /\ envApps # <<>>
    /\ Len(history) > 0
    /\ Len(states) > 0
    /\ Len(containers) > 0
    /\ containers[1].Labels = <<>>
    /\ environ = <<EnvVar(kR, sfxICON), <<65, 61, 49>>>>

ConcurrentIndependent ==
    /\ externalApps = envApps[1]
    /\ \A r \in DOMAIN calls :
           calls[r].pc = "done" =>
               calls[r].result \in buildAppCategories(calls[r].list, externalApps)

\* both calls are done, their lists differ and both share an app name
\* with each other, and there are external apps
ConcurrentIndependentWitness ==
    /\ Len(externalApps) = 2
    /\ \A r \in DOMAIN calls : calls[r].pc = "done"
    /\ Len(calls["r1"].list) = 1
    /\ Len(calls["r2"].list) = 2
    /\ calls["r1"].result # calls["r2"].result

----------------------------------------------------------------------------
\* the result of the latest call, if there is one: every result is the
\* latest in the state its call leaves
LatestResults == IF history = <<>> THEN {} ELSE {history[Len(history)]}

\* the first entry of the external list with the name n
FirstExternal(n) ==
    CHOOSE e \in 1..Len(externalApps) :
        /\ externalApps[e].Name = n
        /\ \A d \in 1..(e - 1) : externalApps[d].Name # n

(* C27. Duplicate external names: when entries of the external list       *)
(* share a Name that no container declares, the result holds exactly one  *)
(* app of that Name, and it is the earliest of those entries, field by    *)
(* field; the later ones leave nothing in the result.                     *)
DuplicateExternalNames ==
    \A cats \in LatestResults : \A e \in 1..Len(externalApps) :
        LET n == externalApps[e].Name
        IN  n \notin ContainerNames =>
                /\ Cardinality(NamedPositions(cats, n)) = 1
                /\ \A p \in NamedPositions(cats, n) :
                       AppAt(cats, p) = externalApps[FirstExternal(n)]

\* a result for an external list whose first two entries share a name no
\* container declares and differ in category and sort index
DuplicateExternalNamesWitness ==
    /\ Len(history) > 0
    /\ Len(externalApps) >= 2
    /\ externalApps[1].Name = externalApps[2].Name
    /\ externalApps[1].Category # externalApps[2].Category
    /\ externalApps[1].SortIndex # externalApps[2].SortIndex
    /\ externalApps[1].Name \notin ContainerNames

\* the places <<category, app, container>> of a result that hold the
\* container c
ContainerPlaces(cats, c) ==
    UNION {{<<p[1], p[2], k>> :
            k \in {j \in 1..Len(AppAt(cats, p).Containers) :
                       AppAt(cats, p).Containers[j] = c}} :
           p \in Positions(cats)}

\* the number of containers over all apps of a result
RECURSIVE ContainerCount(_, _)
ContainerCount(cats, ps) ==
    IF ps = {} THEN 0
    ELSE LET p == CHOOSE x \in ps : TRUE
         IN  Len(AppAt(cats, p).Containers) + ContainerCount(cats, ps \ {p})

(* C28. Container conservation: every container of the input with a       *)
(* non-empty name label is in the result exactly once, every container    *)
(* without one is nowhere in it, and the apps of the result hold as many  *)
(* containers as the input has labelled ones.                             *)
ContainerConservation ==
    \A cats \in LatestResults :
        /\ \A i \in 1..Len(containers) :
               Cardinality(ContainerPlaces(cats, containers[i])) =
                   IF Label(containers[i], "name") # EmptyStr THEN 1 ELSE 0
        /\ ContainerCount(cats, Positions(cats)) =
               Cardinality({i \in 1..Len(containers) :
                                Label(containers[i], "name") # EmptyStr})

\* a result for two containers of one app
ContainerConservationWitness ==
    /\ Len(history) > 0
    /\ Len(containers) = 2
    /\ Label(containers[1], "name") # EmptyStr
    /\ Label(containers[1], "name") = Label(containers[2], "name")

\* the names of the merged apps: those the containers declare and those of
\* the external list
MergedNames ==
    ContainerNames \cup {externalApps[e].Name : e \in 1..Len(externalApps)}

(* C30. Bucketing is a partition: every category of the result holds an   *)
(* app, every merged app is in exactly one category, and the Name of the  *)
(* category of an app is the Category of the app, or the Category is      *)
(* empty and the category is "Uncategorized".                             *)
BucketingPartition ==
    \A cats \in LatestResults :
        /\ \A ci \in 1..Len(cats) : Len(cats[ci].Apps) >= 1
        /\ \A n \in MergedNames : Cardinality(NamedPositions(cats, n)) = 1
        /\ \A p \in Positions(cats) :
               /\ AppAt(cats, p).Name \in MergedNames
               /\ \/ cats[p[1]].Name = AppAt(cats, p).Category
                  \/ /\ AppAt(cats, p).Category = EmptyStr
                     /\ cats[p[1]].Name = Uncategorized

\* a result of two categories, one of them "Uncategorized" with an app
\* that has no Category
BucketingPartitionWitness ==
    \E cats \in Results :
        /\ Len(cats) = 2
        /\ \E p \in Positions(cats) :
               /\ AppAt(cats, p).Category = EmptyStr
               /\ cats[p[1]].Name = Uncategorized

(* C29. Origin of empty apps: an app of the result has no containers if   *)
(* and only if it came from the external list; a container-derived app    *)
(* has at least one, so appState is "unknown" for an app of the result    *)
(* only if the app is external or the State of its first container is     *)
(* "unknown" itself.                                                      *)
OriginOfEmptyApps ==
    \A cats \in LatestResults : \A p \in Positions(cats) :
        LET app == AppAt(cats, p)
            external == /\ app.Name \notin ContainerNames
                        /\ \E e \in 1..Len(externalApps) :
                               externalApps[e].Name = app.Name
        IN  /\ (app.Containers = <<>>) <=> external
            /\ app.Name \in ContainerNames => Len(app.Containers) >= 1
            /\ appState(app.Containers) = sUnknown =>
                   \/ external
                   \/ app.Containers[1].State = sUnknown

\* a result with an external app and with an app whose only container is
\* in the State "unknown"
OriginOfEmptyAppsWitness ==
    \E cats \in LatestResults : \E p, q \in Positions(cats) :
        /\ AppAt(cats, p).Containers = <<>>
        /\ appState(AppAt(cats, p).Containers) = sUnknown
        /\ Len(AppAt(cats, q).Containers) = 1
        /\ AppAt(cats, q).Containers[1].State = sUnknown

\* the exchanges served so far
Exchanges == {served[k] : k \in 1..Len(served)}

\* whether the environment sets the variable name to exactly value
EnvSets(name, value) ==
    \E i \in 1..Len(environ) : environ[i] = name \o <<61>> \o value

(* C21. Auto-update gating: podman auto-update is run only while handling *)
(* a POST /auto-update on a Server whose enableAutoUpdate is true, which   *)
(* it is only if ENABLE_AUTOUPDATE_BUTTON is exactly "true"; with          *)
(* enableAutoUpdate false the handler answers 404 without running the      *)
(* command, and no other route runs it.                                    *)
AutoUpdateGated ==
    /\ envApps # <<>> =>
           (server.enableAutoUpdate <=> EnvSets(envENABLE, sTrue))
    /\ \A x \in Exchanges :
           /\ x.resp.command =>
                  /\ x.req.method = "POST"
                  /\ x.req.path = "/auto-update"
                  /\ x.handler = "handleAutoUpdate"
                  /\ server.enableAutoUpdate
                  /\ EnvSets(envENABLE, sTrue)
           /\ x.handler = "handleAutoUpdate" /\ ~server.enableAutoUpdate =>
                  x.resp.status = 404 /\ ~x.resp.command
           /\ x.handler # "handleAutoUpdate" => ~x.resp.command

\* a POST /auto-update that reached the handler and was answered 404
\* though ENABLE_AUTOUPDATE_BUTTON is set, to "TRUE"
AutoUpdateGatedWitness ==
    \E x \in Exchanges :
        /\ x.handler = "handleAutoUpdate"
        /\ EnvSets(envENABLE, <<84, 82, 85, 69>>)
        /\ x.resp.status = 404
        /\ ~x.resp.command

\* whether some container of the list cs declares an app name
SomeNamed(cs) ==
    \E i \in 1..Len(cs) :
        "name" \in DOMAIN cs[i].Labels /\ cs[i].Labels["name"] # EmptyStr

\* whether the Podman API answers the request of x with a list
Fetched(x) ==
    /\ ~x.req.api.transportErr
    /\ x.req.api.code = 200
    /\ x.req.api.decodable

(* C22. Landing page: GET / is redirected to <basePath>/apps if the       *)
(* external app list is not empty or some container of the fetched list   *)
(* declares a non-empty app name, and to <basePath>/containers            *)
(* otherwise; so it is redirected to /apps exactly when                   *)
(* buildAppCategories on the same list and external apps returns at       *)
(* least one category.                                                    *)
LandingPageAgrees ==
    \A x \in Exchanges : x.handler = "handleRoot" =>
        LET toApps == /\ x.resp.status = 307
                      /\ x.resp.location = server.basePath \o pathApps
            toContainers == /\ x.resp.status = 307
                            /\ x.resp.location =
                                   server.basePath \o pathContainers
        IN  /\ externalApps # <<>> => toApps
            /\ Fetched(x) =>
                   /\ externalApps # <<>> \/ SomeNamed(x.req.api.list)
                          => toApps
                   /\ externalApps = <<>> /\ ~SomeNamed(x.req.api.list)
                          => toContainers
                   /\ \A cats \in buildAppCategories(x.req.api.list,
                                                     externalApps) :
                          toApps <=> Len(cats) >= 1

\* GET / under the base path /pf without external apps, redirected to
\* /pf/apps for the second container of the list
LandingPageAgreesWitness ==
    \E x \in Exchanges :
        /\ x.handler = "handleRoot"
        /\ externalApps = <<>>
        /\ Fetched(x)
        /\ Len(x.req.api.list) = 2
        /\ ~SomeNamed(<<x.req.api.list[1]>>)
        /\ x.resp.location = <<47, 112, 102>> \o pathApps

\* whether the id is one of those IdPool lists as matching the pattern
IdOk(id) == \E i \in 1..Len(IdPool) : IdPool[i].id = id /\ IdPool[i].ok

(* C25. Detail pages: on GET /container/{id} and GET /image/{id} an id    *)
(* that does not match ^[a-zA-Z0-9][a-zA-Z0-9_.:-]*$ is answered 400 and   *)
(* the Podman API is not asked; otherwise a 404 of the API is answered     *)
(* 404, every other failure of the API (no answer, another status than     *)
(* 200, a body that does not decode) 500, and a page is rendered only      *)
(* after a 200 with a body that decodes.                                   *)
DetailErrorMapping ==
    \A x \in Exchanges :
        x.handler \in {"handleContainer", "handleImage"} =>
            LET api == x.req.api
                kind == IF x.handler = "handleContainer"
                        THEN "/containers/" ELSE "/images/"
                page == IF x.handler = "handleContainer"
                        THEN "container.html" ELSE "image.html"
            IN  /\ x.req.path = (IF x.handler = "handleContainer"
                                 THEN "/container/{id}" ELSE "/image/{id}")
                /\ ~IdOk(x.req.id) =>
                       /\ x.resp.status = 400
                       /\ x.resp.apiCalls = <<>>
                       /\ x.resp.page = ""
                /\ IdOk(x.req.id) =>
                       /\ x.resp.apiCalls = <<[path |-> kind, id |-> x.req.id]>>
                       /\ ~api.transportErr /\ api.code = 404 =>
                              x.resp.status = 404 /\ x.resp.page = ""
                       /\ api.transportErr \/ api.code \notin {200, 404}
                              \/ ~api.decodable =>
                              x.resp.status \in {404, 500} /\ x.resp.page = ""
                       /\ ~Fetched(x) /\ (api.transportErr \/ api.code # 404) =>
                              x.resp.status = 500
                       /\ Fetched(x) =>
                              /\ x.resp.page = page
                              /\ x.resp.status =
                                     (IF x.req.tmplErr THEN 500 ELSE 200)
                /\ x.resp.page # "" => IdOk(x.req.id) /\ Fetched(x)

\* GET /image/.a, answered 400 without a request to the Podman API
DetailErrorMappingWitness ==
    \E x \in Exchanges :
        /\ x.handler = "handleImage"
        /\ x.req.id = <<46, 97>>
        /\ x.resp.status = 400
        /\ x.resp.apiCalls = <<>>

(* C26. CSRF gate: a POST reaches the handler behind csrfProtect only if  *)
(* its _csrf form value equals the token of the request, which is the      *)
(* value of the _csrf cookie when the request has one of length 64 and     *)
(* the freshly generated token otherwise; every other POST is answered     *)
(* 403 and no handler is invoked, so no command is run.  A request that    *)
(* is not a POST is always forwarded, and the response sets the _csrf      *)
(* cookie exactly when the request had no _csrf cookie of 64 characters.   *)
CsrfGate ==
    \A x \in Exchanges :
        LET has64 == x.req.hasCookie /\ Len(x.req.cookie) = 64
            token == IF has64 THEN x.req.cookie ELSE x.req.fresh
        IN  /\ x.req.method = "POST" => (x.forwarded <=> x.req.form = token)
            /\ x.req.method = "POST" /\ x.req.form # token =>
                   /\ x.resp.status = 403
                   /\ x.handler = ""
                   /\ ~x.resp.command
                   /\ x.resp.apiCalls = <<>>
            /\ x.req.method # "POST" => x.forwarded
            /\ x.handler # "" => x.forwarded
            /\ x.setCookie <=> ~has64

\* a POST /auto-update on a Server with the button enabled, whose form
\* value is the token that would have been generated but whose cookie
\* holds another token: answered 403, no cookie set
CsrfGateWitness ==
    \E x \in Exchanges :
        /\ x.req.method = "POST"
        /\ x.req.path = "/auto-update"
        /\ server.enableAutoUpdate
        /\ x.req.hasCookie /\ Len(x.req.cookie) = 64
        /\ x.req.form = x.req.fresh
        /\ x.resp.status = 403
        /\ ~x.forwarded
        /\ ~x.setCookie

\* the entries of SuffixPool that the environment holds
Held == {i \in 1..Len(SuffixPool) :
             \E j \in 1..Len(environ) : environ[j] = SuffixPool[i].entry}

\* the keys the environment gives a name
HeldNamed == {SuffixPool[i].key : i \in {h \in Held : SuffixPool[h].field = "name"}}

\* what the environment is to set the field of the key to
HeldValue(key, field) ==
    IF \E i \in Held : SuffixPool[i].key = key /\ SuffixPool[i].field = field
    THEN SuffixPool[CHOOSE i \in Held : /\ SuffixPool[i].key = key
                                         /\ SuffixPool[i].field = field].value
    ELSE EmptyStr

\* the number the environment is to set the sort index of the key to
HeldSortIndex(key) ==
    IF \E i \in Held : SuffixPool[i].key = key /\ SuffixPool[i].field = "sort-index"
    THEN SuffixPool[CHOOSE i \in Held :
                        /\ SuffixPool[i].key = key
                        /\ SuffixPool[i].field = "sort-index"].sortIndex
    ELSE 0

\* the key and the field that testing the suffixes in the order list
\* gives for rest: those of the first of list that rest ends with
FirstMatch(list, rest) ==
    LET hits == {k \in 1..Len(list) : HasSuffix(rest, list[k].suffix)}
    IN  IF hits = {} THEN [key |-> EmptyStr, field |-> ""]
        ELSE LET k == CHOOSE h \in hits : \A g \in hits : h <= g
             IN  [key |-> SubSeq(rest, 1, Len(rest) - Len(list[k].suffix)),
                  field |-> list[k].field]

\* the lists that hold the suffixes in another order
SuffixOrders ==
    {[i \in 1..Len(suffixes) |-> suffixes[o[i]]] :
     o \in Orders(1..Len(suffixes))}

(* C23. Suffix matching: the suffixes are tested from the longest to the  *)
(* shortest and none is a suffix of another, so a variable name ends with  *)
(* at most one of them; its key is all that stands between the prefix and  *)
(* that suffix, underscores included, the result of parseExternalApps      *)
(* holds the value under that key and field and under no other, and        *)
(* testing the suffixes in any other order gives the same key and field.   *)
SuffixUnambiguous ==
    /\ \A i, j \in 1..Len(suffixes) :
           /\ i < j => Len(suffixes[i].suffix) >= Len(suffixes[j].suffix)
           /\ i # j => ~HasSuffix(suffixes[i].suffix, suffixes[j].suffix)
    /\ \A i \in Held :
           LET name == SubSeq(SuffixPool[i].entry, 1,
                              IndexByte(SuffixPool[i].entry, 61))
               rest == SubSeq(name, Len(prefix) + 1, Len(name))
               hits == {k \in 1..Len(suffixes) :
                            HasSuffix(rest, suffixes[k].suffix)}
           IN  /\ Cardinality(hits) <= 1
               /\ hits = {} <=> SuffixPool[i].field = ""
               /\ \A k \in hits :
                      /\ suffixes[k].field = SuffixPool[i].field
                      /\ rest = SuffixPool[i].key \o suffixes[k].suffix
               /\ \A list \in SuffixOrders :
                      FirstMatch(list, rest) =
                          [key |-> SuffixPool[i].key,
                           field |-> SuffixPool[i].field]
    /\ \A r \in ParseResults :
           /\ Len(r) = Cardinality(HeldNamed)
           /\ \A key \in HeldNamed : \E p \in 1..Len(r) :
                  /\ r[p].Name = HeldValue(key, "name")
                  /\ r[p].Icon = HeldValue(key, "icon")
                  /\ r[p].Category = HeldValue(key, "category")
                  /\ r[p].Description = HeldValue(key, "description")
                  /\ r[p].URL = HeldValue(key, "url")
                  /\ r[p].SortIndex = HeldSortIndex(key)

\* a result for an environment that names R_SORT and R and holds
\* PODFATHER_APP_R_SORT_INDEX: the app of R has the sort index 7, the app
\* of R_SORT none
SuffixUnambiguousWitness ==
    \E r \in ParseResults :
        /\ HeldNamed = {kR, kRSORT}
        /\ HeldSortIndex(kR) = 7
        /\ \E p, q \in 1..Len(r) :
               /\ r[p].Name = HeldValue(kR, "name") /\ r[p].SortIndex = 7
               /\ r[q].Name = HeldValue(kRSORT, "name") /\ r[q].SortIndex = 0

(* C24. End to end, the order of iteration decides nothing: the           *)
(* categories that parseExternalApps and then buildAppCategories give for  *)
(* one environment and one container list are the same whatever the order  *)
(* of the entries of the environment and whatever the order in which the   *)
(* map of the keys is walked, also when two keys declare one name.         *)
OrderIndependent ==
    \A cats \in Results :
        \A envs \in Rearrangements(environ) :
            \A ext \in parseExternalApps(envs) :
                buildAppCategories(containers, ext) = {cats}

====
